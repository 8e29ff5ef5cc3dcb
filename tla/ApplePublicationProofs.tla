----------------------- MODULE ApplePublicationProofs -----------------------
(* Theorems about ApplePublication, for every value of its constants, also *)
(* when a job is leased while Apple is not settled.                        *)
EXTENDS ApplePublication, TLAPS

(* The inductive invariant. Marks are the lengths a playlist goes through   *)
(* when it grows batch by batch: two of them are equal or a batch apart.    *)

Marks == {n \in Prefixes : n = Count \/ \E k \in Nat : n = k * Batch}

\* Where an execution has a playlist, and where it knows it has none.
Listed == {"announce", "first_look", "look", "note", "orphan", "replace",
           "append", "appending", "raise", "verify", "recheck",
           "share", "finish", "confirm", "commit"}
Unlisted == {"find", "create", "creating", "refind"}

\* Where an execution has nothing more to write to a volume.
Quiet == {"preflight", "decide", "settle", "block", "await", "seal", "defer", "failed", "over"}

\* What Apple holds, and what its reads return, are marks; reads are behind.
LibInv ==
    /\ \A p \in Lists : Exists(p) => lib[p].held \in Marks
    /\ \A p \in Lists : seen[p] # Nothing =>
          Exists(p) /\ seen[p].held \in Marks /\ seen[p].held <= lib[p].held
    /\ \A r \in late : r.kind = "append" => Exists(r.list) /\ r.from \in Marks

\* The stored high-water mark is not ahead of the stored playlist, which is
\* whole when the manifest is published.
RowInv ==
    /\ row.appended \in Marks
    /\ row.list = NoList => row.appended = 0 /\ ~published
    /\ row.list # NoList => Exists(row.list) /\ row.appended <= lib[row.list].held
    /\ published => lib[row.list].held = Count
    /\ run = "complete" => published

\* An execution's own copy of the volume, stale or not.
ExecOK(e) ==
    /\ exec[e].submitted \in Marks /\ exec[e].visible \in Marks
    /\ At(e, Listed \cup {"store"}) => exec[e].list # NoList
    /\ exec[e].list # NoList =>
          Exists(exec[e].list) /\ exec[e].submitted <= lib[exec[e].list].held
    /\ At(e, Unlisted) => exec[e].list = NoList
    /\ At(e, Unlisted \cup {"store"}) \/ (At(e, {"control"}) /\ exec[e].list = NoList) =>
          exec[e].submitted = 0
    /\ At(e, {"note", "raise"}) => exec[e].visible <= lib[exec[e].list].held

\* The copy of the latest execution is the stored volume, until it stores a
\* playlist; it has none when the manifest is published.
CopyOK(e) ==
    e = job.gen =>
        /\ At(e, Listed \cup Unlisted \cup {"control", "store"}) =>
              row.attempt = exec[e].attempt /\ row.appended = exec[e].submitted
        /\ At(e, Listed \cup Unlisted \cup {"control"}) => row.list = exec[e].list
        /\ At(e, {"store"}) => row.list = NoList
        /\ published => At(e, Quiet)

ExecsInv == \A e \in Execs : ExecOK(e) /\ CopyOK(e)

IInv == TypeOK /\ LibInv /\ RowInv /\ ExecsInv /\ PermitLocks

LEMMA InvariantParts == IInv => TypeOK /\ LibInv /\ RowInv /\ ExecsInv /\ PermitLocks
  BY DEF IInv

-----------------------------------------------------------------------------
(* Marks.                                                                  *)

LEMMA PrefixBounds ==
    /\ Count \in Nat /\ Count >= 1 /\ Batch \in Nat /\ Batch >= 1
    /\ \A n : n \in Prefixes <=> n \in Nat /\ n <= Count
    /\ Marks \subseteq Prefixes
  BY CountAssumption, BatchAssumption DEF Prefixes, Marks

LEMMA FirstAndLastMark == 0 \in Marks /\ Count \in Marks
  <1>1. 0 \in Prefixes /\ Count \in Prefixes
    BY PrefixBounds
  <1>2. 0 \in Nat /\ 0 = 0 * Batch
    BY PrefixBounds
  <1>. QED BY <1>1, <1>2 DEF Marks

\* The next mark is a mark, and no mark lies in between.
LEMMA NextMark ==
    ASSUME NEW m \in Marks
    PROVE  /\ Smaller(m + Batch, Count) \in Marks
           /\ m <= Smaller(m + Batch, Count)
           /\ \A n \in Marks : m < n => Smaller(m + Batch, Count) <= n
  <1>1. m \in Nat /\ m <= Count
    BY PrefixBounds
  <1>2. CASE m = Count
    <2>1. Smaller(m + Batch, Count) = Count
      BY <1>2, PrefixBounds DEF Smaller
    <2>2. \A n \in Marks : ~(m < n)
      BY <1>2, PrefixBounds
    <2>. QED BY <1>2, <2>1, <2>2, PrefixBounds, FirstAndLastMark
  <1>3. CASE m # Count
    <2>1. PICK k \in Nat : m = k * Batch
      BY <1>3 DEF Marks
    <2>2. m + Batch = (k + 1) * Batch /\ k + 1 \in Nat
      BY <2>1, PrefixBounds
    <2>3. Smaller(m + Batch, Count) \in Marks
      <3>1. CASE m + Batch < Count
        <4>1. m + Batch \in Prefixes
          BY <1>1, <3>1, PrefixBounds
        <4>. QED BY <2>2, <3>1, <4>1 DEF Marks, Smaller
      <3>2. CASE ~(m + Batch < Count)
        BY <3>2, FirstAndLastMark DEF Smaller
      <3>. QED BY <3>1, <3>2
    <2>4. ASSUME NEW n \in Marks, m < n PROVE Smaller(m + Batch, Count) <= n
      <3>0. n \in Nat /\ n <= Count
        BY PrefixBounds
      <3>1. CASE n = Count
        BY <1>1, <3>1, PrefixBounds DEF Smaller
      <3>2. CASE n # Count
        <4>1. PICK l \in Nat : n = l * Batch
          BY <3>2 DEF Marks
        <4>2. l > k
          <5>1. SUFFICES ASSUME l <= k PROVE FALSE
            BY <2>1, <4>1
          <5>2. PICK x \in Nat : k = l + x
            <6>1. k - l \in Nat /\ k = l + (k - l)
              BY <5>1
            <6>. QED BY <6>1
          <5>3. m = n + x * Batch /\ x * Batch \in Int /\ x * Batch >= 0
            BY <2>1, <4>1, <5>2, PrefixBounds
          <5>. QED BY <1>1, <2>4, <3>0, <5>3
        <4>3. PICK x \in Nat : l = k + 1 + x
          <5>1. l - k - 1 \in Nat /\ l = k + 1 + (l - k - 1)
            BY <4>2
          <5>. QED BY <5>1
        <4>4. n = m + Batch + x * Batch /\ x * Batch >= 0
          BY <2>1, <4>1, <4>3, PrefixBounds
        <4>5. x * Batch \in Int /\ n >= m + Batch
          BY <1>1, <3>0, <4>4, PrefixBounds
        <4>. QED BY <1>1, <3>0, <4>5, PrefixBounds DEF Smaller
      <3>. QED BY <3>1, <3>2
    <2>5. m <= Smaller(m + Batch, Count)
      BY <1>1, PrefixBounds DEF Smaller
    <2>. QED BY <2>3, <2>4, <2>5
  <1>. QED BY <1>2, <1>3

-----------------------------------------------------------------------------
(* What steps keep.                                                        *)

\* The types of all variables but exec.
OtherTypes ==
    /\ job \in [status: {"queued", "leased", "expired", "settled"}, gen: 0..MaxExecs]
    /\ run \in {"publishing", "waiting", "needs_decision", "quarantined", "cancelled", "complete"}
    /\ published \in BOOLEAN
    /\ row \in [list: Lists \cup {NoList}, attempt: Attempts, appended: Prefixes, complete: BOOLEAN]
    /\ recon \in [state: ReconStates, exec: 0..MaxExecs, appended: Prefixes, observed: BOOLEAN]
    /\ orphans \subseteq Lists
    /\ auth \in [valid: BOOLEAN, key: 0..MaxKeys]
    /\ permit \in 0..MaxExecs
    /\ lib \in [Lists -> Playlists \cup {Nothing}]
    /\ seen \in [Lists -> Playlists \cup {Nothing}]
    /\ late \subseteq Requests
    /\ troubles \in 0..MaxTroubles

\* One execution rewrites its row.
Rewrites(e) ==
    /\ exec' \in [Execs -> ExecRows]
    /\ \A d \in Execs \ {e} : exec'[d] = exec[d]

\* The library loses nothing.
LibGrows ==
    \A p \in Lists : Exists(p) => Exists(p)' /\ lib[p].held <= lib'[p].held

\* The copy of the volume keeps its values.
CopyKept(e) ==
    /\ exec'[e].list = exec[e].list /\ exec'[e].attempt = exec[e].attempt
    /\ exec'[e].submitted = exec[e].submitted /\ exec'[e].visible = exec[e].visible

LEMMA TypesOfTypeOK ==
    /\ TypeOK <=> OtherTypes /\ exec \in [Execs -> ExecRows]
    /\ TypeOK' <=> OtherTypes' /\ exec' \in [Execs -> ExecRows]
  BY DEF TypeOK, OtherTypes

LEMMA RowTypes ==
    ASSUME TypeOK, NEW e \in Execs
    PROVE  /\ exec[e] \in ExecRows
           /\ exec[e].pc \in PCs /\ exec[e].list \in Lists \cup {NoList}
           /\ exec[e].attempt \in Attempts /\ exec[e].submitted \in Prefixes
           /\ exec[e].visible \in Prefixes /\ exec[e].diverged \in BOOLEAN
           /\ exec[e].based \in BOOLEAN /\ exec[e].key \in -1..MaxKeys
           /\ e \in Nat /\ e # NoExec
  BY BoundsAssumption DEF TypeOK, ExecRows, Execs, NoExec

LEMMA NumbersNotZero ==
    /\ NoList \notin Lists /\ NoExec \notin Execs
    /\ Lists \subseteq Nat /\ Execs \subseteq Nat /\ Execs \subseteq 0..MaxExecs
  BY BoundsAssumption DEF Lists, Execs, NoList, NoExec

\* A place is one place.
LEMMA Classes ==
    /\ Listed \cap Unlisted = {} /\ Listed \cap Quiet = {} /\ Unlisted \cap Quiet = {}
    /\ Quiet \cap {"store", "control", "begin", "pend"} = {}
    /\ Listed \cap {"store", "control", "begin", "pend"} = {}
    /\ Unlisted \cap {"store", "control", "begin", "pend"} = {}
    /\ {"note", "raise"} \subseteq Listed
    /\ Listed \subseteq PCs /\ Unlisted \subseteq PCs /\ Quiet \subseteq PCs
    /\ {"store", "control", "begin", "pend"} \subseteq PCs
  BY DEF Listed, Unlisted, Quiet, PCs

LEMMA GotoRow ==
    ASSUME TypeOK, NEW e \in Execs, NEW x \in PCs, Goto(e, x)
    PROVE  Rewrites(e) /\ exec'[e].pc = x /\ exec'[e].next = exec[e].next /\ CopyKept(e)
  <1>1. exec \in [Execs -> ExecRows] /\ exec' = [exec EXCEPT ![e].pc = x]
    BY DEF TypeOK, Goto
  <1>2. exec[e] \in ExecRows
    BY <1>1
  <1>3. [exec[e] EXCEPT !.pc = x] \in ExecRows
    BY <1>2 DEF ExecRows
  <1>4. exec'[e] = [exec[e] EXCEPT !.pc = x]
    BY <1>1
  <1>5. exec'[e].pc = x /\ exec'[e].next = exec[e].next /\ CopyKept(e)
    BY <1>2, <1>4 DEF ExecRows, CopyKept
  <1>. QED BY <1>1, <1>3, <1>5 DEF Rewrites

LEMMA UnstartedRow == Unstarted \in ExecRows
  BY PrefixBounds, BoundsAssumption, ReplacementsAssumption
  DEF Unstarted, ExecRows, PCs, Attempts, NoList

LEMMA EndsRow ==
    ASSUME TypeOK, NEW e \in Execs, Ends(e)
    PROVE  Rewrites(e) /\ exec'[e] = Unstarted
  BY UnstartedRow DEF TypeOK, Ends, Rewrites

LEMMA ListRow ==
    ASSUME NEW f \in [Lists -> Playlists \cup {Nothing}], NEW p \in Lists, f[p] # Nothing
    PROVE  f[p] \in Playlists /\ f[p].held \in Prefixes /\ f[p].held \in Nat
  <1>1. f[p] \in Playlists
    OBVIOUS
  <1>2. f[p].held \in Prefixes
    BY <1>1 DEF Playlists
  <1>. QED BY <1>1, <1>2, PrefixBounds

\* A library that only grows keeps what executions know of it, and a step of
\* one execution keeps what the others know of the volume.
LEMMA KnownKept ==
    ASSUME TypeOK, OtherTypes', LibGrows, NEW p \in Lists, Exists(p), NEW n \in Nat,
           n <= lib[p].held
    PROVE  lib'[p] # Nothing /\ n <= lib'[p].held
  <1>1. lib \in [Lists -> Playlists \cup {Nothing}] /\ lib[p] # Nothing
    BY DEF TypeOK, Exists
  <1>2. lib'[p] # Nothing /\ lib[p].held <= lib'[p].held
    BY DEF LibGrows, Exists
  <1>3. lib' \in [Lists -> Playlists \cup {Nothing}]
    BY DEF OtherTypes
  <1>4. lib[p].held \in Nat
    BY <1>1, ListRow
  <1>5. lib'[p].held \in Nat
    BY <1>2, <1>3, ListRow
  <1>. QED BY <1>2, <1>4, <1>5

LEMMA CopyKnown ==
    ASSUME TypeOK, OtherTypes', LibGrows, NEW d \in Execs, ExecOK(d)
    PROVE  /\ exec[d].list # NoList =>
                lib'[exec[d].list] # Nothing /\ exec[d].submitted <= lib'[exec[d].list].held
           /\ At(d, {"note", "raise"}) => exec[d].visible <= lib'[exec[d].list].held
  <1>1. exec[d].list # NoList => exec[d].list \in Lists
    BY RowTypes
  <1>2. exec[d].submitted \in Nat /\ exec[d].visible \in Nat
    BY RowTypes, PrefixBounds
  <1>3. At(d, {"note", "raise"}) => exec[d].list # NoList
    BY Classes DEF ExecOK, At
  <1>4. exec[d].list # NoList =>
           Exists(exec[d].list) /\ exec[d].submitted <= lib[exec[d].list].held
    BY DEF ExecOK
  <1>5. At(d, {"note", "raise"}) => exec[d].visible <= lib[exec[d].list].held
    BY DEF ExecOK
  <1>. QED BY <1>1, <1>2, <1>3, <1>4, <1>5, KnownKept

LEMMA OthersKept ==
    ASSUME TypeOK, ExecsInv, LibGrows, NEW e \in Execs, Rewrites(e), OtherTypes',
           job'.gen = job.gen, e = job.gen \/ UNCHANGED <<row, published>>,
           NEW d \in Execs, d # e
    PROVE  ExecOK(d)' /\ CopyOK(d)'
  <1>1. exec'[d] = exec[d]
    BY DEF Rewrites
  <1>2. ExecOK(d) /\ CopyOK(d)
    BY DEF ExecsInv
  <1>3. ExecOK(d)'
    <2>1. /\ exec[d].list # NoList =>
                lib'[exec[d].list] # Nothing /\ exec[d].submitted <= lib'[exec[d].list].held
          /\ At(d, {"note", "raise"}) => exec[d].visible <= lib'[exec[d].list].held
      BY <1>2, CopyKnown
    <2>2. /\ exec[d].submitted \in Marks /\ exec[d].visible \in Marks
          /\ At(d, Listed \cup {"store"}) => exec[d].list # NoList
          /\ At(d, Unlisted) => exec[d].list = NoList
          /\ At(d, Unlisted \cup {"store"}) \/ (At(d, {"control"}) /\ exec[d].list = NoList) =>
                exec[d].submitted = 0
      BY <1>2 DEF ExecOK
    <2>. QED BY <1>1, <2>1, <2>2 DEF ExecOK, At, Exists
  <1>4. CopyOK(d)'
    BY <1>1, <1>2 DEF CopyOK, At
  <1>. QED BY <1>3, <1>4

-----------------------------------------------------------------------------
(* The steps of one execution.                                             *)

\* The permit, when it is kept, is not that of the execution.
Frees(e) == permit' = NoExec \/ (permit' = permit /\ permit # e)

\* Only the latest execution changes what its fences protect.
Fences(e) == e = job.gen \/ UNCHANGED <<job, row, published, recon>>

\* The end of a run is recorded by the latest execution.
EndsRun(e) == run' \in {"cancelled", "complete"} => run' = run \/ e = job.gen

LEMMA Closing ==
    ASSUME IInv, NEW e \in Execs, Rewrites(e), OtherTypes', LibGrows, LibInv', RowInv',
           job'.gen = job.gen, Fences(e), ExecOK(e)', CopyOK(e)', PermitLocks'
    PROVE  IInv'
  <1>1. TypeOK /\ ExecsInv
    BY DEF IInv
  <1>2. ASSUME NEW d \in Execs, d # e PROVE ExecOK(d)' /\ CopyOK(d)'
    BY <1>1, <1>2, OthersKept DEF Fences
  <1>3. ExecsInv'
    BY <1>2 DEF ExecsInv
  <1>4. TypeOK'
    BY TypesOfTypeOK DEF Rewrites
  <1>. QED BY <1>3, <1>4 DEF IInv

LEMMA PermitKept ==
    ASSUME PermitLocks, NEW e \in Execs, Rewrites(e), Frees(e), Fences(e), EndsRun(e), TypeOK
    PROVE  PermitLocks'
  <1>1. SUFFICES ASSUME permit' # NoExec PROVE PermitLocks'
    BY DEF PermitLocks
  <1>2. permit' = permit /\ permit # e /\ permit # NoExec
    BY <1>1 DEF Frees
  <1>3. permit \in Execs
    BY <1>2 DEF TypeOK, Execs, NoExec
  <1>4. exec'[permit] = exec[permit]
    BY <1>2, <1>3 DEF Rewrites
  <1>5. job.gen = permit
    BY <1>2 DEF PermitLocks, Owns
  <1>6. UNCHANGED <<job, row, published, recon>>
    BY <1>2, <1>5 DEF Fences
  <1>7. run' \notin {"cancelled", "complete"}
    BY <1>2, <1>5 DEF PermitLocks, EndsRun
  <1>. QED BY <1>2, <1>4, <1>6, <1>7 DEF PermitLocks, Owns, At

\* An execution that goes where it has nothing more to write.
LEMMA Retreats ==
    ASSUME TypeOK, OtherTypes', LibGrows, NEW e \in Execs, ExecOK(e),
           exec'[e].pc \in Quiet, CopyKept(e)
    PROVE  ExecOK(e)' /\ CopyOK(e)'
  <1>1. /\ ~(exec'[e].pc \in Listed \cup {"store"}) /\ ~(exec'[e].pc \in Unlisted)
        /\ ~(exec'[e].pc \in {"control"}) /\ ~(exec'[e].pc \in {"note", "raise"})
        /\ ~(exec'[e].pc \in {"store"})
    BY Classes
  <1>2. exec'[e].submitted \in Marks /\ exec'[e].visible \in Marks
    BY DEF CopyKept, ExecOK
  <1>3. exec'[e].list # NoList =>
           lib'[exec'[e].list] # Nothing /\ exec'[e].submitted <= lib'[exec'[e].list].held
    BY CopyKnown DEF CopyKept
  <1>4. ExecOK(e)'
    BY <1>1, <1>2, <1>3 DEF ExecOK, At, Exists
  <1>5. CopyOK(e)'
    BY <1>1 DEF CopyOK, At
  <1>. QED BY <1>4, <1>5

\* It goes on with the volume it has.
LEMMA Advances ==
    ASSUME TypeOK, OtherTypes', LibGrows, NEW e \in Execs, ExecOK(e), CopyOK(e),
           \/ exec[e].pc \in Listed /\ exec'[e].pc \in Listed \ {"note", "raise"}
           \/ exec[e].pc \in Unlisted /\ exec'[e].pc \in Unlisted,
           CopyKept(e), UNCHANGED <<row, published>>, job'.gen = job.gen
    PROVE  ExecOK(e)' /\ CopyOK(e)'
  <1>1. /\ ~(exec'[e].pc \in {"control"}) /\ ~(exec'[e].pc \in {"note", "raise"})
        /\ ~(exec'[e].pc \in {"store"}) /\ ~(exec[e].pc \in Quiet)
    BY Classes
  <1>2. /\ exec'[e].pc \in Listed => exec[e].pc \in Listed
        /\ exec'[e].pc \in Unlisted => exec[e].pc \in Unlisted
    BY Classes
  <1>3. exec'[e].submitted \in Marks /\ exec'[e].visible \in Marks
    BY DEF CopyKept, ExecOK
  <1>4. exec'[e].list # NoList =>
           lib'[exec'[e].list] # Nothing /\ exec'[e].submitted <= lib'[exec'[e].list].held
    BY CopyKnown DEF CopyKept
  <1>5. /\ exec'[e].pc \in Listed => exec'[e].list # NoList
        /\ exec'[e].pc \in Unlisted => exec'[e].list = NoList /\ exec'[e].submitted = 0
    BY <1>2 DEF ExecOK, At, CopyKept
  <1>6. ExecOK(e)'
    BY <1>1, <1>3, <1>4, <1>5 DEF ExecOK, At, Exists
  <1>7. CopyOK(e)'
    BY <1>1, <1>2 DEF CopyOK, At, CopyKept
  <1>. QED BY <1>6, <1>7

\* It is over.
LEMMA Leaves ==
    ASSUME NEW e \in Execs, exec'[e] = Unstarted
    PROVE  ExecOK(e)' /\ CopyOK(e)'
  <1>1. /\ exec'[e].pc = "over" /\ exec'[e].list = NoList
        /\ exec'[e].submitted = 0 /\ exec'[e].visible = 0
    BY DEF Unstarted
  <1>2. "over" \in Quiet /\ "over" \notin {"note", "raise"}
    BY DEF Quiet
  <1>3. "over" \notin Listed \cup Unlisted \cup {"control", "store"}
    BY DEF Listed, Unlisted
  <1>. QED BY <1>1, <1>2, <1>3, FirstAndLastMark DEF ExecOK, CopyOK, At

LEMMA LibKept ==
    ASSUME UNCHANGED <<lib, seen>>
    PROVE  /\ TypeOK => LibGrows
           /\ LibInv /\ late' = late => LibInv'
  <1>1. ASSUME TypeOK, NEW p \in Lists, Exists(p) PROVE Exists(p)' /\ lib[p].held <= lib'[p].held
    <2>1. lib[p].held \in Nat
      BY <1>1, ListRow DEF TypeOK, Exists
    <2>. QED BY <1>1, <2>1 DEF Exists
  <1>. QED BY <1>1 DEF LibGrows, LibInv, Exists

\* A step that writes neither the volume nor to Apple.
LEMMA QuietStep ==
    ASSUME IInv, NEW e \in Execs, Rewrites(e), OtherTypes',
           UNCHANGED <<row, published, lib, seen, late>>, job'.gen = job.gen,
           Fences(e), Frees(e), EndsRun(e), run' = "complete" => run' = run,
           ExecOK(e)', CopyOK(e)'
    PROVE  IInv'
  <1>1. TypeOK /\ LibInv /\ RowInv /\ PermitLocks
    BY DEF IInv
  <1>2. LibGrows /\ LibInv'
    BY <1>1, LibKept
  <1>3. RowInv'
    BY <1>1 DEF RowInv, Exists
  <1>4. PermitLocks'
    BY <1>1, PermitKept
  <1>. QED BY <1>2, <1>3, <1>4, Closing

LEMMA TroublesTyped ==
    ASSUME TypeOK, Trouble \/ Calm
    PROVE  troubles' \in 0..MaxTroubles
  <1>1. troubles \in 0..MaxTroubles /\ MaxTroubles \in Nat
    BY BoundsAssumption DEF TypeOK
  <1>. QED BY <1>1 DEF Trouble, Calm

LEMMA SameTypes ==
    ASSUME TypeOK, UNCHANGED <<database, apple>>, permit' \in 0..MaxExecs, Trouble \/ Calm
    PROVE  OtherTypes'
  <1>1. OtherTypes /\ troubles' \in 0..MaxTroubles
    BY TypesOfTypeOK, TroublesTyped
  <1>. QED BY <1>1 DEF OtherTypes, database, apple

LEMMA PermitTyped == TypeOK => permit \in 0..MaxExecs /\ NoExec \in 0..MaxExecs
  BY BoundsAssumption DEF TypeOK, NoExec

LEMMA ExecParts ==
    ASSUME IInv, NEW e \in Execs
    PROVE  TypeOK /\ ExecOK(e) /\ CopyOK(e) /\ LibInv /\ RowInv /\ PermitLocks
  BY DEF IInv, ExecsInv

\* A step that moves one execution, by the way of its class.
LEMMA GotoStep ==
    ASSUME IInv, NEW e \in Execs, NEW x \in PCs, Goto(e, x), OtherTypes',
           UNCHANGED <<row, published, lib, seen, late>>, job'.gen = job.gen,
           Fences(e), Frees(e), EndsRun(e), run' = "complete" => run' = run,
           \/ x \in Quiet
           \/ exec[e].pc \in Listed /\ x \in Listed \ {"note", "raise"}
           \/ exec[e].pc \in Unlisted /\ x \in Unlisted
    PROVE  IInv'
  <1>1. TypeOK /\ ExecOK(e) /\ CopyOK(e)
    BY ExecParts
  <1>2. Rewrites(e) /\ exec'[e].pc = x /\ CopyKept(e)
    BY <1>1, GotoRow
  <1>3. LibGrows
    BY <1>1, LibKept
  <1>4. ExecOK(e)' /\ CopyOK(e)'
    <2>1. CASE x \in Quiet
      BY <1>1, <1>2, <1>3, <2>1, Retreats
    <2>2. CASE \/ exec[e].pc \in Listed /\ x \in Listed \ {"note", "raise"}
               \/ exec[e].pc \in Unlisted /\ x \in Unlisted
      BY <1>1, <1>2, <1>3, <2>2, Advances
    <2>. QED BY <2>1, <2>2
  <1>. QED BY <1>2, <1>4, QuietStep

\* It writes at most the permit it frees.
LEMMA MoveStep ==
    ASSUME IInv, NEW e \in Execs, NEW x \in PCs, Goto(e, x),
           UNCHANGED <<database, apple>>, Trouble \/ Calm, Frees(e),
           \/ x \in Quiet
           \/ exec[e].pc \in Listed /\ x \in Listed \ {"note", "raise"}
           \/ exec[e].pc \in Unlisted /\ x \in Unlisted
    PROVE  IInv'
  <1>1. OtherTypes'
    BY ExecParts, PermitTyped, SameTypes DEF Frees
  <1>2. UNCHANGED <<row, published, lib, seen, late, job, recon, run>>
    BY DEF database, apple
  <1>3. Fences(e) /\ EndsRun(e)
    BY <1>2 DEF Fences, EndsRun
  <1>. QED BY <1>1, <1>2, <1>3, GotoStep

\* An execution that is not writing frees no permit by leaving it alone.
LEMMA NotItsPermit ==
    ASSUME IInv, NEW e \in Execs, ~At(e, {"creating", "appending"})
    PROVE  /\ permit # e
           /\ UNCHANGED permit => Frees(e)
           /\ e = job.gen => permit = NoExec
  BY DEF IInv, PermitLocks, Frees, Owns, NoExec, Execs

LEMMA Releases ==
    ASSUME NEW e \in Execs, Release(e)
    PROVE  Frees(e)
  BY DEF Release, Frees

LEMMA Places ==
    /\ ControlPoints \cap {"creating", "appending"} = {}
    /\ Reads \subseteq Listed /\ Reads \cap {"creating", "appending"} = {}
    /\ Fenced \cap {"creating", "appending"} = {}
    /\ Fenced \cup Reads \cup ControlPoints \subseteq PCs
  BY DEF ControlPoints, Reads, Fenced, Listed, PCs

-----------------------------------------------------------------------------
(* Steps that only move an execution.                                      *)

LEMMA ControlRefusesStep ==
    ASSUME IInv, NEW e \in Execs, ControlRefuses(e)
    PROVE  IInv'
  <1>1. UNCHANGED <<database, permit, apple, troubles>> /\ At(e, ControlPoints)
    BY DEF ControlRefuses
  <1>2. Frees(e)
    BY <1>1, Places, NotItsPermit DEF At
  <1>3. PICK x \in {"failed", "block", "defer"} : Goto(e, x)
    BY DEF ControlRefuses
  <1>4. x \in Quiet /\ x \in PCs
    BY Classes DEF Quiet
  <1>. QED BY <1>1, <1>2, <1>3, <1>4, MoveStep DEF Calm

LEMMA PauseStep ==
    ASSUME IInv, NEW e \in Execs, Pause(e)
    PROVE  IInv'
  <1>1. UNCHANGED <<database, permit, apple>> /\ At(e, ControlPoints) /\ Trouble
        /\ Goto(e, "defer")
    BY DEF Pause
  <1>2. Frees(e)
    BY <1>1, Places, NotItsPermit DEF At
  <1>3. "defer" \in Quiet /\ "defer" \in PCs
    BY Classes DEF Quiet
  <1>. QED BY <1>1, <1>2, <1>3, MoveStep

LEMMA PermitRefusedStep ==
    ASSUME IInv, NEW e \in Execs, PermitRefused(e)
    PROVE  IInv'
  <1>1. UNCHANGED <<database, permit, apple>> /\ At(e, {"create", "append"})
        /\ (Trouble \/ Calm)
        /\ Goto(e, IF At(e, {"append"}) THEN "recheck" ELSE "failed")
    BY DEF PermitRefused
  <1>2. Frees(e)
    BY <1>1, NotItsPermit DEF At
  <1>3. CASE At(e, {"append"})
    <2>1. "recheck" \in PCs /\ "recheck" \in Listed \ {"note", "raise"} /\ exec[e].pc \in Listed
      BY <1>3 DEF PCs, Listed, At
    <2>. QED BY <1>1, <1>2, <1>3, <2>1, MoveStep
  <1>4. CASE ~At(e, {"append"})
    <2>1. "failed" \in Quiet /\ "failed" \in PCs
      BY Classes DEF Quiet
    <2>. QED BY <1>1, <1>2, <1>4, <2>1, MoveStep
  <1>. QED BY <1>3, <1>4

LEMMA LookFailsStep ==
    ASSUME IInv, NEW e \in Execs, LookFails(e)
    PROVE  IInv'
  <1>1. UNCHANGED <<database, permit, apple>> /\ At(e, Reads) /\ (Trouble \/ Calm)
    BY DEF LookFails
  <1>2. Frees(e)
    BY <1>1, Places, NotItsPermit DEF At
  <1>3. Goto(e, "orphan") \/ Goto(e, "failed")
    BY DEF LookFails
  <1>4. "orphan" \in PCs /\ "orphan" \in Listed \ {"note", "raise"} /\ exec[e].pc \in Listed
    BY <1>1, Classes, Places DEF Listed, At
  <1>5. "failed" \in Quiet /\ "failed" \in PCs
    BY Classes DEF Quiet
  <1>. QED BY <1>1, <1>2, <1>3, <1>4, <1>5, MoveStep

LEMMA ShareStep ==
    ASSUME IInv, NEW e \in Execs, Share(e)
    PROVE  IInv'
  <1>1. UNCHANGED <<database, permit, apple, troubles>> /\ At(e, {"share"})
        /\ Goto(e, "finish")
    BY DEF Share
  <1>2. Frees(e)
    BY <1>1, NotItsPermit DEF At
  <1>3. "finish" \in PCs /\ "finish" \in Listed \ {"note", "raise"} /\ exec[e].pc \in Listed
    BY <1>1, Classes DEF Listed, At
  <1>. QED BY <1>1, <1>2, <1>3, MoveStep DEF Calm

LEMMA CommitRefusedStep ==
    ASSUME IInv, NEW e \in Execs, CommitRefused(e)
    PROVE  IInv'
  <1>1. UNCHANGED <<database, permit, apple, troubles>> /\ At(e, {"commit"})
        /\ Goto(e, "seal")
    BY DEF CommitRefused
  <1>2. Frees(e)
    BY <1>1, NotItsPermit DEF At
  <1>3. "seal" \in Quiet /\ "seal" \in PCs
    BY Classes DEF Quiet
  <1>. QED BY <1>1, <1>2, <1>3, MoveStep DEF Calm

LEMMA CaughtMoves ==
    ASSUME NEW e \in Execs
    PROVE  /\ Caught(e) \in PCs
           /\ Caught(e) \in Quiet \/ (exec[e].pc \in Listed /\ Caught(e) \in Listed \ {"note", "raise"})
  <1>1. "failed" \in Quiet /\ "failed" \in PCs
    BY Classes DEF Quiet
  <1>2. "recheck" \in PCs /\ "recheck" \in Listed \ {"note", "raise"} /\ {"raise", "announce"} \subseteq Listed
    BY Classes DEF Listed
  <1>. QED BY <1>1, <1>2 DEF Caught, At

LEMMA RefusedStep ==
    ASSUME IInv, NEW e \in Execs, Refused(e)
    PROVE  IInv'
  <1>1. UNCHANGED <<database, permit, apple, troubles>> /\ At(e, Fenced) /\ Goto(e, Caught(e))
    BY DEF Refused
  <1>2. Frees(e)
    BY <1>1, Places, NotItsPermit DEF At
  <1>. QED BY <1>1, <1>2, CaughtMoves, MoveStep DEF Calm

LEMMA CallFailsStep ==
    ASSUME IInv, NEW e \in Execs, CallFails(e)
    PROVE  IInv'
  <1>1. UNCHANGED <<database, permit, apple>> /\ Trouble /\ Goto(e, Caught(e))
        /\ At(e, Fenced \cup Reads \cup {"preflight", "find", "refind", "share", "commit", "await", "settle"})
    BY DEF CallFails, At
  <1>2. Frees(e)
    BY <1>1, Places, NotItsPermit DEF At
  <1>. QED BY <1>1, <1>2, CaughtMoves, MoveStep

\* Apple answers with a refusal.
LEMMA OrMoves ==
    ASSUME NEW e \in Execs, At(e, {"creating", "appending"}),
           NEW x \in {"block", "refind", "verify"},
           x = "block" \/ x = AfterTimeout(e)
    PROVE  /\ Or(e, x) \in PCs
           /\ \/ Or(e, x) \in Quiet
              \/ exec[e].pc \in Listed /\ Or(e, x) \in Listed \ {"note", "raise"}
              \/ exec[e].pc \in Unlisted /\ Or(e, x) \in Unlisted
  <1>1. {"failed", "block"} \subseteq Quiet /\ {"failed", "block"} \subseteq PCs
    BY Classes DEF Quiet
  <1>2. /\ "recheck" \in Listed \ {"note", "raise"} /\ "verify" \in Listed \ {"note", "raise"}
        /\ "appending" \in Listed /\ "recheck" \in PCs /\ "verify" \in PCs
    BY Classes DEF Listed
  <1>3. "refind" \in Unlisted /\ "creating" \in Unlisted /\ "refind" \in PCs
    BY Classes DEF Unlisted
  <1>4. CASE exec[e].pc = "creating"
    BY <1>1, <1>3, <1>4 DEF Or, AfterTimeout, At
  <1>5. CASE exec[e].pc = "appending"
    BY <1>1, <1>2, <1>5 DEF Or, AfterTimeout, At
  <1>. QED BY <1>4, <1>5 DEF At

LEMMA RejectedStep ==
    ASSUME IInv, NEW e \in Execs, Rejected(e)
    PROVE  IInv'
  <1>1. UNCHANGED <<database, apple>> /\ (Trouble \/ Calm) /\ Release(e)
        /\ At(e, {"creating", "appending"})
        /\ Goto(e, IF At(e, {"creating"}) THEN "failed" ELSE "recheck")
    BY DEF Rejected
  <1>2. CASE At(e, {"creating"})
    <2>1. "failed" \in Quiet /\ "failed" \in PCs
      BY Classes DEF Quiet
    <2>. QED BY <1>1, <1>2, <2>1, Releases, MoveStep
  <1>3. CASE ~At(e, {"creating"})
    <2>1. exec[e].pc \in Listed /\ "recheck" \in Listed \ {"note", "raise"} /\ "recheck" \in PCs
      BY <1>1, <1>3, Classes DEF Listed, At
    <2>. QED BY <1>1, <1>3, <2>1, Releases, MoveStep
  <1>. QED BY <1>2, <1>3

LEMMA WriteDeniedStep ==
    ASSUME IInv, NEW e \in Execs, WriteDenied(e)
    PROVE  IInv'
  <1>1. UNCHANGED <<database, apple>> /\ Trouble /\ Release(e)
        /\ At(e, {"creating", "appending"}) /\ Goto(e, Or(e, "block"))
    BY DEF WriteDenied
  <1>. QED BY <1>1, OrMoves, Releases, MoveStep

-----------------------------------------------------------------------------
(* Steps that write the run, the reconciliation or the job.                *)

LEMMA DecideStep ==
    ASSUME IInv, NEW e \in Execs, Decide(e)
    PROVE  IInv'
  <1>1. /\ At(e, {"decide"}) /\ Holds(e) /\ run' = "needs_decision" /\ Goto(e, "settle")
        /\ UNCHANGED <<job, published, row, recon, orphans, auth, permit, apple, troubles>>
    BY DEF Decide
  <1>2. OtherTypes'
    BY <1>1, ExecParts, TypesOfTypeOK DEF OtherTypes, apple
  <1>3. Frees(e) /\ Fences(e) /\ EndsRun(e)
    BY <1>1, NotItsPermit DEF At, Fences, EndsRun
  <1>4. "settle" \in Quiet /\ "settle" \in PCs
    BY Classes DEF Quiet
  <1>. QED BY <1>1, <1>2, <1>3, <1>4, GotoStep DEF apple

\* recon' keeps its owner, or the owner's execution writes it.
LEMMA ReconStep ==
    ASSUME IInv, NEW e \in Execs, Holds(e), ~At(e, {"creating", "appending"}),
           recon' \in [state: ReconStates, exec: 0..MaxExecs, appended: Prefixes, observed: BOOLEAN],
           UNCHANGED <<job, run, published, row, orphans, auth, permit, apple, troubles>>
    PROVE  OtherTypes' /\ Fences(e) /\ Frees(e) /\ EndsRun(e)
  <1>1. OtherTypes'
    BY ExecParts, TypesOfTypeOK DEF OtherTypes, apple
  <1>2. Fences(e) /\ Frees(e) /\ EndsRun(e)
    BY NotItsPermit DEF Fences, EndsRun, Holds
  <1>. QED BY <1>1, <1>2

LEMMA ReconTyped ==
    TypeOK => recon \in [state: ReconStates, exec: 0..MaxExecs, appended: Prefixes, observed: BOOLEAN]
  BY DEF TypeOK

LEMMA LoopPlaces ==
    ASSUME NEW e \in Execs
    PROVE  /\ LoopPC(e) \in PCs
           /\ LoopPC(e) \in Quiet \/ LoopPC(e) \in Listed \ {"note", "raise"}
  <1>1. "failed" \in Quiet /\ "failed" \in PCs
    BY Classes DEF Quiet
  <1>2. /\ "append" \in Listed \ {"note", "raise"} /\ "share" \in Listed \ {"note", "raise"}
        /\ "append" \in PCs /\ "share" \in PCs
    BY Classes DEF Listed
  <1>. QED BY <1>1, <1>2 DEF LoopPC

LEMMA AnnounceStep ==
    ASSUME IInv, NEW e \in Execs, Announce(e)
    PROVE  IInv'
  <1>1. /\ At(e, {"announce"}) /\ Holds(e)
        /\ recon' = [recon EXCEPT !.state = "append_pending",
                              !.appended = exec[e].submitted, !.observed = FALSE]
        /\ Goto(e, IF exec[e].next = "loop" THEN LoopPC(e) ELSE exec[e].next)
        /\ UNCHANGED <<job, run, published, row, orphans, auth, permit, apple, troubles>>
    BY DEF Announce
  <1>2. TypeOK /\ exec[e].submitted \in Prefixes /\ exec[e].next \in {"first_look", "look", "loop"}
    BY ExecParts, RowTypes DEF ExecRows
  <1>3. recon' \in [state: ReconStates, exec: 0..MaxExecs, appended: Prefixes, observed: BOOLEAN]
    BY <1>1, <1>2, ReconTyped DEF ReconStates
  <1>4. OtherTypes' /\ Fences(e) /\ Frees(e) /\ EndsRun(e)
    BY <1>1, <1>3, ReconStep DEF At
  <1>5. exec[e].pc \in Listed
    BY <1>1 DEF At, Listed
  <1>6. PICK x \in PCs : Goto(e, x) /\ (x \in Quiet \/ x \in Listed \ {"note", "raise"})
    <2>1. {"first_look", "look"} \subseteq Listed \ {"note", "raise"} /\ {"first_look", "look"} \subseteq PCs
      BY Classes DEF Listed
    <2>. QED BY <1>1, <1>2, <2>1, LoopPlaces
  <1>. QED BY <1>1, <1>4, <1>5, <1>6, GotoStep DEF apple

LEMMA OrphanStep ==
    ASSUME IInv, NEW e \in Execs, Orphan(e)
    PROVE  IInv'
  <1>1. /\ At(e, {"orphan"}) /\ Holds(e)
        /\ orphans' = orphans \cup {exec[e].list}
        /\ Goto(e, "replace")
        /\ UNCHANGED <<job, run, published, row, recon, auth, permit, apple, troubles>>
    BY DEF Orphan
  <1>2. exec[e].list \in Lists
    BY <1>1, ExecParts, RowTypes DEF ExecOK, At, Listed
  <1>3. OtherTypes'
    BY <1>1, <1>2, ExecParts, TypesOfTypeOK DEF OtherTypes, apple
  <1>4. Fences(e) /\ Frees(e) /\ EndsRun(e)
    BY <1>1, NotItsPermit DEF Fences, EndsRun, Holds, At
  <1>5. exec[e].pc \in Listed /\ "replace" \in Listed \ {"note", "raise"} /\ "replace" \in PCs
    BY <1>1, Classes DEF Listed, At
  <1>. QED BY <1>1, <1>3, <1>4, <1>5, GotoStep DEF apple

LEMMA ConfirmStep ==
    ASSUME IInv, NEW e \in Execs, Confirm(e)
    PROVE  IInv'
  <1>1. /\ At(e, {"confirm"}) /\ Holds(e)
        /\ recon' = [recon EXCEPT !.state = "reconciling", !.appended = Count, !.observed = TRUE]
        /\ Goto(e, "commit")
        /\ UNCHANGED <<job, run, published, row, orphans, auth, permit, apple, troubles>>
    BY DEF Confirm
  <1>2. recon' \in [state: ReconStates, exec: 0..MaxExecs, appended: Prefixes, observed: BOOLEAN]
    <2>1. recon \in [state: ReconStates, exec: 0..MaxExecs, appended: Prefixes, observed: BOOLEAN]
      BY ExecParts, ReconTyped
    <2>2. Count \in Prefixes /\ "reconciling" \in ReconStates
      BY PrefixBounds DEF ReconStates
    <2>. QED BY <1>1, <2>1, <2>2
  <1>3. OtherTypes' /\ Fences(e) /\ Frees(e) /\ EndsRun(e)
    BY <1>1, <1>2, ReconStep DEF At
  <1>4. exec[e].pc \in Listed /\ "commit" \in Listed \ {"note", "raise"} /\ "commit" \in PCs
    BY <1>1, Classes DEF Listed, At
  <1>. QED BY <1>1, <1>3, <1>4, GotoStep DEF apple

LEMMA AwaitStep ==
    ASSUME IInv, NEW e \in Execs, Await(e)
    PROVE  IInv'
  <1>1. /\ At(e, {"await"})
        /\ run' = run \/ run' = "waiting"
        /\ Goto(e, "failed") \/ Goto(e, "settle")
        /\ UNCHANGED <<job, published, row, recon, orphans, auth, permit, apple, troubles>>
    BY DEF Await
  <1>2. OtherTypes'
    BY <1>1, ExecParts, TypesOfTypeOK DEF OtherTypes, apple
  <1>3. Frees(e) /\ Fences(e) /\ EndsRun(e)
    BY <1>1, NotItsPermit DEF At, Fences, EndsRun
  <1>4. {"settle", "failed"} \subseteq Quiet /\ {"settle", "failed"} \subseteq PCs
    BY Classes DEF Quiet
  <1>. QED BY <1>1, <1>2, <1>3, <1>4, GotoStep DEF apple

LEMMA SealStep ==
    ASSUME IInv, NEW e \in Execs, Seal(e)
    PROVE  IInv'
  <1>1. /\ At(e, {"seal"})
        /\ recon' = IF Holds(e) /\ recon.exec = e /\ recon.state # "complete"
                    THEN [recon EXCEPT !.state = "quarantined", !.observed = FALSE] ELSE recon
        /\ Goto(e, "failed")
        /\ UNCHANGED <<job, run, published, row, orphans, auth, permit, apple, troubles>>
    BY DEF Seal
  <1>2. recon' \in [state: ReconStates, exec: 0..MaxExecs, appended: Prefixes, observed: BOOLEAN]
    BY <1>1, ExecParts, ReconTyped DEF ReconStates
  <1>3. OtherTypes'
    BY <1>1, <1>2, ExecParts, TypesOfTypeOK DEF OtherTypes, apple
  <1>4. Frees(e) /\ Fences(e) /\ EndsRun(e)
    BY <1>1, NotItsPermit DEF At, Fences, EndsRun, Holds
  <1>5. "failed" \in Quiet /\ "failed" \in PCs
    BY Classes DEF Quiet
  <1>. QED BY <1>1, <1>3, <1>4, <1>5, GotoStep DEF apple

LEMMA EndsQuietly ==
    ASSUME IInv, NEW e \in Execs, Ends(e)
    PROVE  Rewrites(e) /\ ExecOK(e)' /\ CopyOK(e)'
  BY ExecParts, EndsRow, Leaves

\* completeJob, deferJob and failJob let go of the lease of its owner only.
LEMMA JobLeaves ==
    ASSUME IInv, NEW e \in Execs, ~At(e, {"creating", "appending"}),
           NEW status \in {"queued", "settled"},
           job' = IF Owns(e) THEN [job EXCEPT !.status = status] ELSE job,
           UNCHANGED <<published, row, recon, permit>>
    PROVE  /\ job' \in [status: {"queued", "leased", "expired", "settled"}, gen: 0..MaxExecs]
           /\ job'.gen = job.gen /\ Fences(e) /\ Frees(e)
  <1>1. job \in [status: {"queued", "leased", "expired", "settled"}, gen: 0..MaxExecs]
    BY ExecParts DEF TypeOK
  <1>. QED BY <1>1, NotItsPermit DEF Fences, Owns

LEMMA SettleStep ==
    ASSUME IInv, NEW e \in Execs, Settle(e)
    PROVE  IInv'
  <1>1. /\ At(e, {"settle"}) /\ Ends(e)
        /\ job' = IF Owns(e) THEN [job EXCEPT !.status = "settled"] ELSE job
        /\ UNCHANGED <<run, published, row, recon, orphans, auth, permit, apple, troubles>>
    BY DEF Settle, Settled
  <1>2. /\ job' \in [status: {"queued", "leased", "expired", "settled"}, gen: 0..MaxExecs]
        /\ job'.gen = job.gen /\ Fences(e) /\ Frees(e)
    BY <1>1, JobLeaves DEF At
  <1>3. OtherTypes' /\ EndsRun(e)
    BY <1>1, <1>2, ExecParts, TypesOfTypeOK DEF OtherTypes, apple, EndsRun
  <1>. QED BY <1>1, <1>2, <1>3, EndsQuietly, QuietStep DEF apple

LEMMA DeferStep ==
    ASSUME IInv, NEW e \in Execs, Defer(e)
    PROVE  IInv'
  <1>1. /\ At(e, {"defer"}) /\ Ends(e)
        /\ job' = IF Owns(e) THEN [job EXCEPT !.status = "queued"] ELSE job
        /\ UNCHANGED <<run, published, row, recon, orphans, auth, permit, apple, troubles>>
    BY DEF Defer
  <1>2. /\ job' \in [status: {"queued", "leased", "expired", "settled"}, gen: 0..MaxExecs]
        /\ job'.gen = job.gen /\ Fences(e) /\ Frees(e)
    BY <1>1, JobLeaves DEF At
  <1>3. OtherTypes' /\ EndsRun(e)
    BY <1>1, <1>2, ExecParts, TypesOfTypeOK DEF OtherTypes, apple, EndsRun
  <1>. QED BY <1>1, <1>2, <1>3, EndsQuietly, QuietStep DEF apple

LEMMA FailStep ==
    ASSUME IInv, NEW e \in Execs, Fail(e)
    PROVE  IInv'
  <1>1. /\ At(e, {"failed"}) /\ Ends(e)
        /\ run' = "quarantined" \/ run' = run
        /\ job' = IF Owns(e) THEN [job EXCEPT !.status = "settled"] ELSE job
        /\ UNCHANGED <<published, row, recon, orphans, auth, permit, apple, troubles>>
    BY DEF Fail, Settled
  <1>2. /\ job' \in [status: {"queued", "leased", "expired", "settled"}, gen: 0..MaxExecs]
        /\ job'.gen = job.gen /\ Fences(e) /\ Frees(e)
    BY <1>1, JobLeaves DEF At
  <1>3. OtherTypes' /\ EndsRun(e)
    BY <1>1, <1>2, ExecParts, TypesOfTypeOK DEF OtherTypes, apple, EndsRun
  <1>. QED BY <1>1, <1>2, <1>3, EndsQuietly, QuietStep DEF apple

\* The row of an execution is written.
Writes(e, r) == exec' = [exec EXCEPT ![e] = r]

LEMMA RowWritten ==
    ASSUME TypeOK, NEW e \in Execs, NEW r \in ExecRows, Writes(e, r)
    PROVE  Rewrites(e) /\ exec'[e] = r
  BY DEF TypeOK, Rewrites, Writes

LEMMA KeyTyped == TypeOK => auth.key \in -1..MaxKeys
  <1>1. TypeOK => auth \in [valid: BOOLEAN, key: 0..MaxKeys]
    BY DEF TypeOK
  <1>. QED BY <1>1, BoundsAssumption

Keyed(r, key, x) == [r EXCEPT !.key = key, !.pc = x]

LEMMA KeyedRow ==
    ASSUME NEW r \in ExecRows, NEW key \in -1..MaxKeys, NEW x \in PCs
    PROVE  /\ Keyed(r, key, x) \in ExecRows
           /\ Keyed(r, key, x).pc = x /\ Keyed(r, key, x).list = r.list
           /\ Keyed(r, key, x).attempt = r.attempt
           /\ Keyed(r, key, x).submitted = r.submitted /\ Keyed(r, key, x).visible = r.visible
  BY DEF ExecRows, Keyed

\* The execution takes a key and goes where it writes no volume.
LEMMA KeyTaken ==
    ASSUME TypeOK, NEW e \in Execs, NEW x \in PCs, NEW key \in -1..MaxKeys,
           Writes(e, Keyed(exec[e], key, x))
    PROVE  Rewrites(e) /\ exec'[e].pc = x /\ CopyKept(e)
  <1>1. exec[e] \in ExecRows
    BY DEF TypeOK
  <1>2. Rewrites(e) /\ exec'[e] = Keyed(exec[e], key, x)
    BY <1>1, KeyedRow, RowWritten
  <1>. QED BY <1>1, <1>2, KeyedRow DEF CopyKept

\* Where nothing of a volume is known, nothing is to be shown of it.
LEMMA Beginning ==
    ASSUME TypeOK, OtherTypes', LibGrows, NEW e \in Execs, ExecOK(e), CopyKept(e),
           exec'[e].pc \in {"begin", "pend"}, e = job'.gen => ~published'
    PROVE  ExecOK(e)' /\ CopyOK(e)'
  <1>1. exec'[e].pc \notin Listed \cup Unlisted \cup {"control", "store", "note", "raise"}
    BY Classes
  <1>2. exec'[e].submitted \in Marks /\ exec'[e].visible \in Marks
    BY DEF CopyKept, ExecOK
  <1>3. exec'[e].list # NoList =>
           lib'[exec'[e].list] # Nothing /\ exec'[e].submitted <= lib'[exec'[e].list].held
    BY CopyKnown DEF CopyKept
  <1>4. ExecOK(e)'
    BY <1>1, <1>2, <1>3 DEF ExecOK, At, Exists
  <1>5. CopyOK(e)'
    BY <1>1 DEF CopyOK, At
  <1>. QED BY <1>4, <1>5

LEMMA PreflightStep ==
    ASSUME IInv, NEW e \in Execs, Preflight(e)
    PROVE  IInv'
  <1>1. /\ At(e, {"preflight"})
        /\ UNCHANGED <<database, permit, apple, troubles>>
        /\ Writes(e, Keyed(exec[e], auth.key, IF published THEN "decide" ELSE "begin"))
    BY DEF Preflight, Writes, Keyed
  <1>2. TypeOK /\ ExecOK(e)
    BY ExecParts
  <1>3. UNCHANGED <<row, published, lib, seen, late, job, recon, run>>
    BY <1>1 DEF database, apple
  <1>4. OtherTypes' /\ LibGrows
    BY <1>1, <1>2, <1>3, PermitTyped, SameTypes, LibKept DEF Calm
  <1>5. Frees(e) /\ Fences(e) /\ EndsRun(e)
    BY <1>1, <1>3, NotItsPermit DEF At, Fences, EndsRun
  <1>6. "decide" \in PCs /\ "begin" \in PCs /\ "decide" \in Quiet
    BY Classes DEF Quiet
  <1>7. CASE published
    <2>1. Writes(e, Keyed(exec[e], auth.key, "decide"))
      BY <1>1, <1>7
    <2>2. Rewrites(e) /\ exec'[e].pc = "decide" /\ CopyKept(e)
      BY <1>2, <1>6, <2>1, KeyTyped, KeyTaken
    <2>3. ExecOK(e)' /\ CopyOK(e)'
      BY <1>2, <1>4, <1>6, <2>2, Retreats
    <2>. QED BY <1>3, <1>4, <1>5, <2>2, <2>3, QuietStep
  <1>8. CASE ~published
    <2>1. Writes(e, Keyed(exec[e], auth.key, "begin"))
      BY <1>1, <1>8
    <2>2. Rewrites(e) /\ exec'[e].pc = "begin" /\ CopyKept(e)
      BY <1>2, <1>6, <2>1, KeyTyped, KeyTaken
    <2>3. ExecOK(e)' /\ CopyOK(e)'
      BY <1>2, <1>3, <1>4, <1>8, <2>2, Beginning
    <2>. QED BY <1>3, <1>4, <1>5, <2>2, <2>3, QuietStep
  <1>. QED BY <1>7, <1>8

LEMMA NoTracksLeftStep ==
    ASSUME IInv, NEW e \in Execs, NoTracksLeft(e)
    PROVE  IInv'
  <1>1. /\ At(e, {"preflight"}) /\ Trouble
        /\ UNCHANGED <<database, permit, apple>>
        /\ Writes(e, Keyed(exec[e], auth.key, "decide"))
    BY DEF NoTracksLeft, Writes, Keyed
  <1>2. TypeOK /\ ExecOK(e)
    BY ExecParts
  <1>3. UNCHANGED <<row, published, lib, seen, late, job, recon, run>>
    BY <1>1 DEF database, apple
  <1>4. OtherTypes' /\ LibGrows
    BY <1>1, <1>2, <1>3, PermitTyped, SameTypes, LibKept
  <1>5. Frees(e) /\ Fences(e) /\ EndsRun(e)
    BY <1>1, <1>3, NotItsPermit DEF At, Fences, EndsRun
  <1>6. "decide" \in PCs /\ "decide" \in Quiet
    BY Classes DEF Quiet
  <1>7. Rewrites(e) /\ exec'[e].pc = "decide" /\ CopyKept(e)
    BY <1>1, <1>2, <1>6, KeyTyped, KeyTaken
  <1>8. ExecOK(e)' /\ CopyOK(e)'
    BY <1>2, <1>4, <1>6, <1>7, Retreats
  <1>. QED BY <1>3, <1>4, <1>5, <1>7, <1>8, QuietStep

LEMMA ReadDeniedStep ==
    ASSUME IInv, NEW e \in Execs, ReadDenied(e)
    PROVE  IInv'
  <1>1. /\ At(e, Reads \cup {"preflight", "find", "refind", "share"}) /\ Trouble
        /\ UNCHANGED <<database, permit, apple>>
        /\ Writes(e, [exec[e] EXCEPT !.pc = "block",
                       !.key = IF exec[e].key = -1 THEN auth.key ELSE exec[e].key])
    BY DEF ReadDenied, Writes
  <1>2. TypeOK /\ ExecOK(e)
    BY ExecParts
  <1>3. UNCHANGED <<row, published, lib, seen, late, job, recon, run>>
    BY <1>1 DEF database, apple
  <1>4. OtherTypes' /\ LibGrows
    BY <1>1, <1>2, <1>3, PermitTyped, SameTypes, LibKept
  <1>5. Frees(e) /\ Fences(e) /\ EndsRun(e)
    BY <1>1, <1>3, Places, NotItsPermit DEF At, Fences, EndsRun
  <1>6. "block" \in PCs /\ "block" \in Quiet
    BY Classes DEF Quiet
  <1>7. Rewrites(e) /\ exec'[e].pc = "block" /\ CopyKept(e)
    <2>1. exec[e] \in ExecRows /\ auth.key \in -1..MaxKeys /\ exec[e].key \in -1..MaxKeys
      BY <1>2, RowTypes, KeyTyped
    <2>2. PICK key \in -1..MaxKeys : key = IF exec[e].key = -1 THEN auth.key ELSE exec[e].key
      BY <2>1
    <2>3. [exec[e] EXCEPT !.pc = "block", !.key = key] = Keyed(exec[e], key, "block")
      BY <2>1 DEF ExecRows, Keyed
    <2>4. Writes(e, Keyed(exec[e], key, "block"))
      BY <1>1, <2>2, <2>3
    <2>. QED BY <1>2, <1>6, <2>4, KeyTaken
  <1>8. ExecOK(e)' /\ CopyOK(e)'
    BY <1>2, <1>4, <1>6, <1>7, Retreats
  <1>. QED BY <1>3, <1>4, <1>5, <1>7, <1>8, QuietStep

-----------------------------------------------------------------------------
(* Steps that write the copy of the volume.                                *)

Begun(r, x, based) == [r EXCEPT !.pc = x, !.based = based]

LEMMA BegunRow ==
    ASSUME NEW r \in ExecRows, NEW x \in PCs, NEW based \in BOOLEAN
    PROVE  /\ Begun(r, x, based) \in ExecRows
           /\ Begun(r, x, based).pc = x /\ Begun(r, x, based).list = r.list
           /\ Begun(r, x, based).attempt = r.attempt
           /\ Begun(r, x, based).submitted = r.submitted /\ Begun(r, x, based).visible = r.visible
  BY DEF ExecRows, Begun

LEMMA BegunTaken ==
    ASSUME TypeOK, NEW e \in Execs, NEW x \in PCs, NEW based \in BOOLEAN,
           Writes(e, Begun(exec[e], x, based))
    PROVE  Rewrites(e) /\ exec'[e].pc = x /\ CopyKept(e)
  <1>1. exec[e] \in ExecRows
    BY DEF TypeOK
  <1>2. Rewrites(e) /\ exec'[e] = Begun(exec[e], x, based)
    BY <1>1, BegunRow, RowWritten
  <1>. QED BY <1>1, <1>2, BegunRow DEF CopyKept

LEMMA BeginStep ==
    ASSUME IInv, NEW e \in Execs, Begin(e)
    PROVE  IInv'
  <1>1. /\ At(e, {"begin"}) /\ Holds(e) /\ run' = "publishing"
        /\ recon' = [recon EXCEPT !.exec = e]
        /\ Writes(e, Begun(exec[e], "pend", TRUE))
        /\ UNCHANGED <<job, published, row, orphans, auth, permit, apple, troubles>>
    BY DEF Begin, Writes, Begun
  <1>2. TypeOK /\ ExecOK(e) /\ CopyOK(e)
    BY ExecParts
  <1>3. recon' \in [state: ReconStates, exec: 0..MaxExecs, appended: Prefixes, observed: BOOLEAN]
    BY <1>1, <1>2, ReconTyped, NumbersNotZero
  <1>4. OtherTypes' /\ LibGrows
    BY <1>1, <1>2, <1>3, TypesOfTypeOK, LibKept DEF OtherTypes, apple
  <1>5. Frees(e) /\ Fences(e) /\ EndsRun(e)
    BY <1>1, NotItsPermit DEF At, Fences, EndsRun, Holds
  <1>6. Rewrites(e) /\ exec'[e].pc = "pend" /\ CopyKept(e)
    BY <1>1, <1>2, BegunTaken, Classes
  <1>7. ~published'
    <2>1. ~At(e, Quiet)
      BY <1>1, Classes DEF At
    <2>. QED BY <1>1, <1>2, <2>1 DEF CopyOK, Holds
  <1>8. ExecOK(e)' /\ CopyOK(e)'
    BY <1>2, <1>4, <1>6, <1>7, Beginning
  <1>. QED BY <1>1, <1>4, <1>5, <1>6, <1>8, QuietStep DEF apple

LEMMA BlockStep ==
    ASSUME IInv, NEW e \in Execs, Block(e)
    PROVE  IInv'
  <1>1. /\ At(e, {"block"})
        /\ UNCHANGED <<job, run, published, row, orphans, permit, apple, troubles>>
    BY DEF Block
  <1>2. TypeOK /\ ExecOK(e)
    BY ExecParts
  <1>3. /\ recon' \in [state: ReconStates, exec: 0..MaxExecs, appended: Prefixes, observed: BOOLEAN]
        /\ Holds(e) \/ UNCHANGED recon
    <2>1. CASE Holds(e)
      <3>1. PICK state \in ReconStates, observed \in BOOLEAN :
               recon' = [recon EXCEPT !.exec = e, !.state = state, !.observed = observed]
        <4>1. recon.state \in ReconStates /\ recon.observed \in BOOLEAN
          BY <1>2, ReconTyped
        <4>2. "authorization_blocked" \in ReconStates
          BY DEF ReconStates
        <4>. QED BY <2>1, <4>1, <4>2 DEF Block
      <3>. QED BY <1>2, <2>1, <3>1, ReconTyped, NumbersNotZero
    <2>2. CASE ~Holds(e)
      <3>1. recon' = recon
        BY <2>2 DEF Block
      <3>. QED BY <1>2, <3>1, ReconTyped
    <2>. QED BY <2>1, <2>2
  <1>4. auth' \in [valid: BOOLEAN, key: 0..MaxKeys]
    <2>1. auth \in [valid: BOOLEAN, key: 0..MaxKeys]
      BY <1>2 DEF TypeOK
    <2>2. auth' = [auth EXCEPT !.valid = FALSE] \/ auth' = auth
      BY DEF Block
    <2>. QED BY <2>1, <2>2
  <1>5. OtherTypes' /\ LibGrows
    BY <1>1, <1>2, <1>3, <1>4, TypesOfTypeOK, LibKept DEF OtherTypes, apple
  <1>6. Frees(e) /\ Fences(e) /\ EndsRun(e)
    BY <1>1, <1>3, NotItsPermit DEF At, Fences, EndsRun, Holds
  <1>7. {"await", "defer"} \subseteq Quiet /\ {"await", "defer"} \subseteq PCs
    BY Classes DEF Quiet
  <1>8. Rewrites(e) /\ exec'[e].pc \in Quiet /\ CopyKept(e)
    <2>1. CASE SameKey(e)
      <3>1. PICK based \in BOOLEAN : Writes(e, Begun(exec[e], "await", based))
        <4>1. exec' = [exec EXCEPT ![e] = [exec[e] EXCEPT !.pc = "await", !.based = exec[e].based \/ Holds(e)]]
          BY <2>1 DEF Block
        <4>2. (exec[e].based \/ Holds(e)) \in BOOLEAN
          OBVIOUS
        <4>. QED BY <4>1, <4>2 DEF Writes, Begun
      <3>. QED BY <1>2, <1>7, <3>1, BegunTaken
    <2>2. CASE ~SameKey(e)
      BY <1>2, <1>7, <2>2, GotoRow DEF Block
    <2>. QED BY <2>1, <2>2
  <1>9. ExecOK(e)' /\ CopyOK(e)'
    BY <1>2, <1>5, <1>8, Retreats
  <1>. QED BY <1>1, <1>5, <1>6, <1>8, <1>9, QuietStep DEF apple

Loaded(r, list, attempt, submitted) ==
    [r EXCEPT !.pc = "control", !.list = list, !.attempt = attempt, !.submitted = submitted]

LEMMA LoadedRow ==
    ASSUME NEW r \in ExecRows, NEW list \in Lists \cup {NoList}, NEW attempt \in Attempts,
           NEW submitted \in Prefixes
    PROVE  LET s == Loaded(r, list, attempt, submitted) IN
           /\ s \in ExecRows /\ s.pc = "control" /\ s.list = list /\ s.attempt = attempt
           /\ s.submitted = submitted /\ s.visible = r.visible
  <1>1. "control" \in PCs
    BY Classes
  <1>. QED BY <1>1 DEF ExecRows, Loaded

LEMMA PendStep ==
    ASSUME IInv, NEW e \in Execs, Pend(e)
    PROVE  IInv'
  <1>1. /\ At(e, {"pend"}) /\ Holds(e) /\ e = job.gen
        /\ UNCHANGED <<job, run, published, row, orphans, auth, permit, apple, troubles>>
    BY DEF Pend, Holds
  <1>2. TypeOK /\ ExecOK(e) /\ CopyOK(e) /\ RowInv
    BY ExecParts
  <1>3. recon' \in [state: ReconStates, exec: 0..MaxExecs, appended: Prefixes, observed: BOOLEAN]
    <2>1. "create_pending" \in ReconStates
      BY DEF ReconStates
    <2>. QED BY <1>2, <2>1, ReconTyped DEF Pend
  <1>4. OtherTypes' /\ Fences(e) /\ Frees(e) /\ EndsRun(e)
    BY <1>1, <1>3, ReconStep DEF At
  <1>5. CASE Goto(e, "seal")
    <2>1. "seal" \in Quiet /\ "seal" \in PCs
      BY Classes DEF Quiet
    <2>. QED BY <1>1, <1>4, <1>5, <2>1, GotoStep DEF apple
  <1>6. CASE Writes(e, Loaded(exec[e], row.list, row.attempt, row.appended))
    <2>1. row.list \in Lists \cup {NoList} /\ row.attempt \in Attempts /\ row.appended \in Prefixes
      BY <1>2 DEF TypeOK
    <2>2. exec[e] \in ExecRows
      BY <1>2, RowTypes
    <2>3. Rewrites(e) /\ exec'[e] = Loaded(exec[e], row.list, row.attempt, row.appended)
      BY <1>2, <1>6, <2>1, <2>2, LoadedRow, RowWritten
    <2>4. /\ exec'[e].pc = "control" /\ exec'[e].list = row.list /\ exec'[e].attempt = row.attempt
          /\ exec'[e].submitted = row.appended /\ exec'[e].visible = exec[e].visible
      BY <2>1, <2>2, <2>3, LoadedRow
    <2>5. "control" \notin Listed \cup Unlisted \cup {"store", "note", "raise"}
      BY Classes
    <2>6. row.list # NoList => lib'[row.list] # Nothing /\ row.appended <= lib'[row.list].held
      BY <1>1, <1>2 DEF RowInv, Exists, apple
    <2>7. exec'[e].submitted \in Marks /\ exec'[e].visible \in Marks
      BY <1>2, <2>4 DEF RowInv, ExecOK
    <2>8. row.list = NoList => row.appended = 0
      BY <1>2 DEF RowInv
    <2>9. ExecOK(e)'
      BY <2>4, <2>5, <2>6, <2>7, <2>8 DEF ExecOK, At, Exists
    <2>10. ~published'
      <3>1. ~At(e, Quiet)
        BY <1>1, Classes DEF At
      <3>. QED BY <1>1, <1>2, <3>1 DEF CopyOK
    <2>11. row' = row
      BY <1>1
    <2>12. CopyOK(e)'
      BY <2>4, <2>5, <2>10, <2>11 DEF CopyOK, At
    <2>. QED BY <1>1, <1>4, <2>3, <2>9, <2>12, QuietStep DEF apple
  <1>7. \/ Goto(e, "seal")
        \/ Writes(e, Loaded(exec[e], row.list, row.attempt, row.appended))
    BY DEF Pend, Writes, Loaded
  <1>. QED BY <1>5, <1>6, <1>7

\* next alone is written, and the execution moves.
Turned(r, x, next) == [r EXCEPT !.next = next, !.pc = x]

LEMMA TurnedRow ==
    ASSUME NEW r \in ExecRows, NEW x \in PCs, NEW next \in {"first_look", "look", "loop"}
    PROVE  LET s == Turned(r, x, next) IN
           /\ s \in ExecRows /\ s.pc = x /\ s.list = r.list /\ s.attempt = r.attempt
           /\ s.submitted = r.submitted /\ s.visible = r.visible
  BY DEF ExecRows, Turned

LEMMA TurnedTaken ==
    ASSUME TypeOK, NEW e \in Execs, NEW x \in PCs, NEW next \in {"first_look", "look", "loop"},
           Writes(e, Turned(exec[e], x, next))
    PROVE  Rewrites(e) /\ exec'[e].pc = x /\ CopyKept(e)
  <1>1. exec[e] \in ExecRows
    BY DEF TypeOK
  <1>2. Rewrites(e) /\ exec'[e] = Turned(exec[e], x, next)
    BY <1>1, TurnedRow, RowWritten
  <1>. QED BY <1>1, <1>2, TurnedRow DEF CopyKept

LEMMA ControlStep ==
    ASSUME IInv, NEW e \in Execs, Control(e)
    PROVE  IInv'
  <1>1. /\ At(e, {"control"})
        /\ UNCHANGED <<database, permit, apple, troubles>>
        /\ Writes(e, Turned(exec[e], IF exec[e].list = NoList THEN "find" ELSE "announce", "first_look"))
    BY DEF Control, Writes, Turned
  <1>2. TypeOK /\ ExecOK(e) /\ CopyOK(e)
    BY ExecParts
  <1>3. UNCHANGED <<row, published, lib, seen, late, job, recon, run>>
    BY <1>1 DEF database, apple
  <1>4. OtherTypes' /\ LibGrows
    BY <1>1, <1>2, <1>3, PermitTyped, SameTypes, LibKept DEF Calm
  <1>5. Frees(e) /\ Fences(e) /\ EndsRun(e)
    BY <1>1, <1>3, NotItsPermit DEF At, Fences, EndsRun
  <1>6. PICK x \in PCs : /\ Writes(e, Turned(exec[e], x, "first_look"))
                         /\ \/ x \in Unlisted /\ exec[e].list = NoList
                            \/ x \in Listed \ {"note", "raise"} /\ exec[e].list # NoList
    <2>1. "find" \in Unlisted /\ "announce" \in Listed \ {"note", "raise"}
      BY DEF Unlisted, Listed
    <2>2. "find" \in PCs /\ "announce" \in PCs
      BY <2>1, Classes
    <2>. QED BY <1>1, <2>1, <2>2
  <1>7. Rewrites(e) /\ exec'[e].pc = x /\ CopyKept(e)
    BY <1>2, <1>6, TurnedTaken
  <1>8. x \notin {"control", "store", "note", "raise"} /\ exec[e].pc \notin Quiet
        /\ exec[e].pc \in {"control"}
    BY <1>1, <1>6, Classes DEF At
  <1>9. /\ exec'[e].submitted \in Marks /\ exec'[e].visible \in Marks
        /\ exec[e].list = NoList => exec'[e].submitted = 0
    BY <1>2, <1>7, <1>8 DEF ExecOK, CopyKept, At
  <1>10. exec'[e].list # NoList =>
           lib'[exec'[e].list] # Nothing /\ exec'[e].submitted <= lib'[exec'[e].list].held
    BY <1>2, <1>4, <1>7, CopyKnown DEF CopyKept
  <1>11. exec'[e].list = exec[e].list
    BY <1>7 DEF CopyKept
  <1>12. x \in Unlisted => x \notin Listed
    BY Classes
  <1>13. ExecOK(e)'
    BY <1>6, <1>7, <1>8, <1>9, <1>10, <1>11, <1>12 DEF ExecOK, At, Exists
  <1>14. CopyOK(e)'
    BY <1>2, <1>3, <1>7, <1>8 DEF CopyOK, At, CopyKept
  <1>. QED BY <1>3, <1>4, <1>5, <1>7, <1>13, <1>14, QuietStep

\* A playlist of this attempt is there.
Taken(r, list) == [r EXCEPT !.pc = "store", !.list = list]

LEMMA TakenRow ==
    ASSUME NEW r \in ExecRows, NEW list \in Lists \cup {NoList}
    PROVE  LET s == Taken(r, list) IN
           /\ s \in ExecRows /\ s.pc = "store" /\ s.list = list /\ s.attempt = r.attempt
           /\ s.submitted = r.submitted /\ s.visible = r.visible
  <1>1. "store" \in PCs
    BY Classes
  <1>. QED BY <1>1 DEF ExecRows, Taken

\* An execution that had none takes a playlist that exists.
LEMMA TakesList ==
    ASSUME TypeOK, OtherTypes', LibGrows, NEW e \in Execs, ExecOK(e), CopyOK(e),
           exec[e].pc \in Unlisted, NEW p \in Lists, lib'[p] # Nothing,
           Writes(e, Taken(exec[e], p)), UNCHANGED <<row, published>>, job'.gen = job.gen
    PROVE  Rewrites(e) /\ ExecOK(e)' /\ CopyOK(e)'
  <1>1. exec[e] \in ExecRows
    BY RowTypes
  <1>2. Rewrites(e) /\ exec'[e] = Taken(exec[e], p)
    BY <1>1, TakenRow, RowWritten
  <1>3. /\ exec'[e].pc = "store" /\ exec'[e].list = p /\ exec'[e].attempt = exec[e].attempt
        /\ exec'[e].submitted = exec[e].submitted /\ exec'[e].visible = exec[e].visible
    BY <1>1, <1>2, TakenRow
  <1>4. /\ exec[e].list = NoList /\ exec[e].submitted = 0
        /\ exec[e].submitted \in Marks /\ exec[e].visible \in Marks
    BY DEF ExecOK, At
  <1>5. "store" \notin Listed \cup Unlisted \cup {"control", "note", "raise"} /\ p # NoList
    BY Classes, NumbersNotZero
  <1>6. 0 <= lib'[p].held
    <2>1. lib' \in [Lists -> Playlists \cup {Nothing}]
      BY DEF OtherTypes
    <2>2. lib'[p].held \in Nat
      BY <2>1, ListRow
    <2>. QED BY <2>2
  <1>7. ExecOK(e)'
    BY <1>3, <1>4, <1>5, <1>6 DEF ExecOK, At, Exists
  <1>8. exec[e].pc \notin Quiet
    BY Classes
  <1>9. CopyOK(e)'
    BY <1>3, <1>4, <1>5, <1>8 DEF CopyOK, At
  <1>. QED BY <1>2, <1>7, <1>9

LEMMA FindStep ==
    ASSUME IInv, NEW e \in Execs, Find(e)
    PROVE  IInv'
  <1>1. /\ At(e, {"find", "refind"})
        /\ UNCHANGED <<database, permit, apple, troubles>>
    BY DEF Find
  <1>2. TypeOK /\ ExecOK(e) /\ CopyOK(e) /\ LibInv
    BY ExecParts
  <1>3. UNCHANGED <<row, published, lib, seen, late, job, recon, run>>
    BY <1>1 DEF database, apple
  <1>4. OtherTypes' /\ LibGrows
    BY <1>1, <1>2, <1>3, PermitTyped, SameTypes, LibKept DEF Calm
  <1>5. Frees(e) /\ Fences(e) /\ EndsRun(e)
    BY <1>1, <1>3, NotItsPermit DEF At, Fences, EndsRun
  <1>6. exec[e].pc \in Unlisted
    BY <1>1 DEF At, Unlisted
  <1>7. CASE Goto(e, "create") \/ Goto(e, "failed")
    <2>1. "create" \in Unlisted /\ "create" \in PCs /\ "failed" \in Quiet /\ "failed" \in PCs
      BY Classes DEF Unlisted, Quiet
    <2>. QED BY <1>3, <1>4, <1>5, <1>6, <1>7, <2>1, GotoStep
  <1>8. CASE \E p \in Marked(e) : Writes(e, Taken(exec[e], p))
    <2>1. PICK p \in Marked(e) : Writes(e, Taken(exec[e], p))
      BY <1>8
    <2>2. p \in Lists /\ seen[p] # Nothing
      BY DEF Marked, Shown
    <2>3. lib'[p] # Nothing
      BY <1>2, <1>3, <2>2 DEF LibInv, Exists
    <2>4. Rewrites(e) /\ ExecOK(e)' /\ CopyOK(e)'
      BY <1>2, <1>3, <1>4, <1>6, <2>1, <2>2, <2>3, TakesList
    <2>. QED BY <1>3, <1>4, <1>5, <2>4, QuietStep
  <1>9. \/ Goto(e, "create") \/ Goto(e, "failed")
        \/ \E p \in Marked(e) : Writes(e, Taken(exec[e], p))
    BY DEF Find, Writes, Taken
  <1>. QED BY <1>7, <1>8, <1>9

\* The latest execution writes the row of the volume.
LEMMA RowStep ==
    ASSUME IInv, NEW e \in Execs, Holds(e), ~At(e, {"creating", "appending"}), Rewrites(e),
           row' \in [list: Lists \cup {NoList}, attempt: Attempts, appended: Prefixes, complete: BOOLEAN],
           UNCHANGED <<job, run, published, recon, orphans, auth, permit, apple, troubles>>,
           RowInv', ExecOK(e)', CopyOK(e)'
    PROVE  IInv'
  <1>1. TypeOK /\ LibInv /\ PermitLocks
    BY ExecParts
  <1>2. OtherTypes'
    BY <1>1, TypesOfTypeOK DEF OtherTypes, apple
  <1>3. UNCHANGED <<lib, seen, late>>
    BY DEF apple
  <1>4. LibGrows /\ LibInv'
    BY <1>1, <1>3, LibKept
  <1>5. Fences(e) /\ Frees(e) /\ EndsRun(e)
    BY NotItsPermit DEF Fences, EndsRun, Holds
  <1>6. PermitLocks'
    BY <1>1, <1>5, PermitKept
  <1>. QED BY <1>2, <1>4, <1>5, <1>6, Closing

LEMMA StoreStep ==
    ASSUME IInv, NEW e \in Execs, Store(e)
    PROVE  IInv'
  <1>1. /\ At(e, {"store"}) /\ Holds(e) /\ e = job.gen
        /\ row' = [row EXCEPT !.list = exec[e].list, !.complete = FALSE]
        /\ exec' = [exec EXCEPT ![e] = [exec[e] EXCEPT !.pc = "announce", !.next = "first_look"]]
        /\ UNCHANGED <<job, run, published, recon, orphans, auth, permit, apple, troubles>>
    BY DEF Store, Holds
  <1>2. TypeOK /\ ExecOK(e) /\ CopyOK(e) /\ RowInv
    BY ExecParts
  <1>3. exec[e] \in ExecRows /\ exec[e].list \in Lists
    BY <1>1, <1>2, RowTypes DEF ExecOK, At
  <1>4. Writes(e, Turned(exec[e], "announce", "first_look"))
    <2>1. [exec[e] EXCEPT !.pc = "announce", !.next = "first_look"] = Turned(exec[e], "announce", "first_look")
      BY <1>3 DEF Turned, ExecRows
    <2>. QED BY <1>1, <2>1 DEF Writes
  <1>5. "announce" \in Listed /\ "announce" \in PCs
    BY Classes DEF Listed
  <1>6. Rewrites(e) /\ exec'[e].pc = "announce" /\ CopyKept(e)
    BY <1>2, <1>4, <1>5, TurnedTaken
  <1>7. /\ row \in [list: Lists \cup {NoList}, attempt: Attempts, appended: Prefixes, complete: BOOLEAN]
        /\ row' \in [list: Lists \cup {NoList}, attempt: Attempts, appended: Prefixes, complete: BOOLEAN]
        /\ row'.list = exec[e].list /\ row'.attempt = row.attempt /\ row'.appended = row.appended
    <2>1. row \in [list: Lists \cup {NoList}, attempt: Attempts, appended: Prefixes, complete: BOOLEAN]
      BY <1>2 DEF TypeOK
    <2>. QED BY <1>1, <1>3, <2>1
  <1>8. /\ row.list = NoList /\ row.attempt = exec[e].attempt /\ row.appended = exec[e].submitted
        /\ exec[e].submitted = 0 /\ ~published
    <2>1. exec[e].pc \notin Quiet
      BY <1>1, Classes DEF At
    <2>. QED BY <1>1, <1>2, <2>1 DEF CopyOK, ExecOK, At
  <1>9. /\ exec[e].list # NoList /\ lib[exec[e].list] # Nothing
        /\ exec[e].submitted <= lib[exec[e].list].held
        /\ exec[e].submitted \in Marks /\ exec[e].visible \in Marks
    BY <1>2, <1>3, NumbersNotZero DEF ExecOK, Exists
  <1>10. lib' = lib /\ published' = published /\ run' = run /\ job' = job
    BY <1>1 DEF apple
  <1>11. RowInv'
    <2>1. run = "complete" => published
      BY <1>2 DEF RowInv
    <2>. QED BY <1>7, <1>8, <1>9, <1>10, <2>1, FirstAndLastMark DEF RowInv, Exists
  <1>12. "announce" \notin Unlisted \cup {"store", "control", "note", "raise"}
    BY <1>5, Classes DEF Listed
  <1>13. ExecOK(e)'
    BY <1>5, <1>6, <1>9, <1>10, <1>12 DEF ExecOK, At, Exists, CopyKept
  <1>14. CopyOK(e)'
    BY <1>6, <1>7, <1>8, <1>10, <1>12 DEF CopyOK, At, CopyKept
  <1>. QED BY <1>1, <1>6, <1>7, <1>11, <1>13, <1>14, RowStep DEF At

\* An execution goes on with its volume and an observation of it.
LEMMA Observes ==
    ASSUME TypeOK, OtherTypes', LibGrows, NEW e \in Execs, ExecOK(e), CopyOK(e),
           exec[e].pc \in Listed, exec'[e].pc \in Listed \/ exec'[e].pc \in Quiet,
           exec'[e].visible \in Marks, exec'[e].visible <= lib'[exec[e].list].held,
           exec'[e].list = exec[e].list, exec'[e].attempt = exec[e].attempt,
           exec'[e].submitted = exec[e].submitted,
           UNCHANGED <<row, published>>, job'.gen = job.gen
    PROVE  ExecOK(e)' /\ CopyOK(e)'
  <1>1. exec'[e].pc \notin Unlisted \cup {"store", "control"} /\ exec[e].pc \notin Quiet
    BY Classes
  <1>2. exec[e].submitted \in Marks /\ exec[e].list # NoList
    BY DEF ExecOK, At
  <1>3. lib'[exec[e].list] # Nothing /\ exec[e].submitted <= lib'[exec[e].list].held
    BY <1>2, CopyKnown
  <1>4. ExecOK(e)'
    BY <1>1, <1>2, <1>3 DEF ExecOK, At, Exists
  <1>5. CopyOK(e)'
    BY <1>1 DEF CopyOK, At
  <1>. QED BY <1>4, <1>5

Looked(r, visible, diverged, x) ==
    [r EXCEPT !.visible = visible, !.diverged = diverged, !.pc = x, !.next = "loop"]

LEMMA LookedRow ==
    ASSUME NEW r \in ExecRows, NEW visible \in Prefixes, NEW diverged \in BOOLEAN, NEW x \in PCs
    PROVE  LET s == Looked(r, visible, diverged, x) IN
           /\ s \in ExecRows /\ s.pc = x /\ s.list = r.list /\ s.attempt = r.attempt
           /\ s.submitted = r.submitted /\ s.visible = visible
  BY DEF ExecRows, Looked

LEMMA LookStep ==
    ASSUME IInv, NEW e \in Execs, Look(e)
    PROVE  IInv'
  <1>1. /\ At(e, Reads) /\ Shown(exec[e].list)
        /\ UNCHANGED <<database, permit, apple, troubles>>
        /\ Writes(e, Looked(exec[e], SeenOf(e).held, Diverges(e), AfterLook(e, SeenOf(e).held)))
    BY DEF Look, Writes, Looked, Diverges, Suffices
  <1>2. TypeOK /\ ExecOK(e) /\ CopyOK(e) /\ LibInv
    BY ExecParts
  <1>3. UNCHANGED <<row, published, lib, seen, late, job, recon, run>>
    BY <1>1 DEF database, apple
  <1>4. OtherTypes' /\ LibGrows
    BY <1>1, <1>2, <1>3, PermitTyped, SameTypes, LibKept DEF Calm
  <1>5. Frees(e) /\ Fences(e) /\ EndsRun(e)
    BY <1>1, <1>3, Places, NotItsPermit DEF At, Fences, EndsRun
  <1>6. exec[e] \in ExecRows /\ exec[e].pc \in Listed /\ exec[e].list \in Lists
    <2>1. exec[e].pc \in Listed
      BY <1>1, Places DEF At
    <2>. QED BY <1>2, <2>1, RowTypes DEF ExecOK, At
  <1>7. SeenOf(e).held \in Marks /\ SeenOf(e).held <= lib[exec[e].list].held
    BY <1>1, <1>2, <1>6 DEF LibInv, SeenOf, Shown
  <1>8. /\ AfterLook(e, SeenOf(e).held) \in PCs
        /\ AfterLook(e, SeenOf(e).held) \in Listed \/ AfterLook(e, SeenOf(e).held) \in Quiet
    <2>1. {"note", "orphan", "raise"} \subseteq Listed /\ "failed" \in Quiet
      BY DEF Listed, Quiet
    <2>2. {"note", "orphan", "raise", "failed"} \subseteq PCs
      BY <2>1, Classes
    <2>. QED BY <2>1, <2>2 DEF AfterLook
  <1>9. SeenOf(e).held \in Prefixes /\ Diverges(e) \in BOOLEAN
    BY <1>7, PrefixBounds DEF Diverges
  <1>10. Rewrites(e) /\ exec'[e] = Looked(exec[e], SeenOf(e).held, Diverges(e), AfterLook(e, SeenOf(e).held))
    BY <1>1, <1>2, <1>6, <1>8, <1>9, LookedRow, RowWritten
  <1>11. /\ exec'[e].pc = AfterLook(e, SeenOf(e).held) /\ exec'[e].visible = SeenOf(e).held
         /\ exec'[e].list = exec[e].list /\ exec'[e].attempt = exec[e].attempt
         /\ exec'[e].submitted = exec[e].submitted
    BY <1>6, <1>8, <1>9, <1>10, LookedRow
  <1>12. ExecOK(e)' /\ CopyOK(e)'
    BY <1>2, <1>3, <1>4, <1>6, <1>7, <1>8, <1>11, Observes
  <1>. QED BY <1>3, <1>4, <1>5, <1>10, <1>12, QuietStep

LEMMA NoteStep ==
    ASSUME IInv, NEW e \in Execs, Note(e)
    PROVE  IInv'
  <1>1. /\ At(e, {"note"}) /\ Holds(e)
        /\ UNCHANGED <<job, run, published, row, orphans, auth, permit, apple, troubles>>
        /\ recon' = [recon EXCEPT !.state = "reconciling", !.appended = exec[e].submitted,
                       !.observed = exec[e].submitted = Count /\ exec[e].visible = Count]
    BY DEF Note
  <1>2. TypeOK /\ ExecOK(e) /\ CopyOK(e)
    BY ExecParts
  <1>3. recon' \in [state: ReconStates, exec: 0..MaxExecs, appended: Prefixes, observed: BOOLEAN]
    <2>1. exec[e].submitted \in Prefixes /\ "reconciling" \in ReconStates
      BY <1>2, RowTypes DEF ReconStates
    <2>2. (exec[e].submitted = Count /\ exec[e].visible = Count) \in BOOLEAN
      OBVIOUS
    <2>. QED BY <1>1, <1>2, <2>1, <2>2, ReconTyped
  <1>4. OtherTypes' /\ Fences(e) /\ Frees(e) /\ EndsRun(e)
    BY <1>1, <1>3, ReconStep DEF At
  <1>5. exec[e].pc \in Listed
    BY <1>1 DEF At, Listed
  <1>6. CASE \E x \in PCs : Goto(e, x) /\ (x \in Quiet \/ x \in Listed \ {"note", "raise"})
    BY <1>1, <1>4, <1>5, <1>6, GotoStep DEF apple
  <1>7. CASE Goto(e, "raise")
    <2>1. "raise" \in Listed /\ "raise" \in PCs
      BY Classes
    <2>2. Rewrites(e) /\ exec'[e].pc = "raise" /\ CopyKept(e)
      BY <1>2, <1>7, <2>1, GotoRow
    <2>3. UNCHANGED <<lib, seen, late>>
      BY <1>1 DEF apple
    <2>4. LibGrows
      BY <1>2, <2>3, LibKept
    <2>5. exec[e].visible \in Marks /\ exec[e].visible <= lib[exec[e].list].held
      BY <1>1, <1>2 DEF ExecOK, At
    <2>6. ExecOK(e)' /\ CopyOK(e)'
      BY <1>1, <1>2, <1>4, <1>5, <2>1, <2>2, <2>3, <2>4, <2>5, Observes DEF CopyKept
    <2>. QED BY <1>1, <1>4, <2>2, <2>3, <2>6, QuietStep
  <1>8. \/ \E x \in PCs : Goto(e, x) /\ (x \in Quiet \/ x \in Listed \ {"note", "raise"})
        \/ Goto(e, "raise")
    <2>1. Goto(e, "orphan") \/ Goto(e, "raise") \/ Goto(e, LoopPC(e))
      BY DEF Note
    <2>2. "orphan" \in Listed \ {"note", "raise"} /\ "orphan" \in PCs
      BY Classes DEF Listed
    <2>. QED BY <2>1, <2>2, LoopPlaces
  <1>. QED BY <1>6, <1>7, <1>8

\* The copy after the high-water mark is raised.
RaisedRow(r) == [r EXCEPT !.submitted = r.visible, !.pc = "announce"]

LEMMA RaisedFields ==
    ASSUME NEW r \in ExecRows
    PROVE  LET s == RaisedRow(r) IN
           /\ s \in ExecRows /\ s.pc = "announce" /\ s.list = r.list /\ s.attempt = r.attempt
           /\ s.submitted = r.visible /\ s.visible = r.visible
  <1>1. "announce" \in PCs
    BY DEF PCs
  <1>. QED BY <1>1 DEF ExecRows, RaisedRow

LEMMA RaiseStep ==
    ASSUME IInv, NEW e \in Execs, Raise(e)
    PROVE  IInv'
  <1>1. /\ At(e, {"raise"}) /\ Holds(e) /\ e = job.gen
        /\ row' = [row EXCEPT !.appended = exec[e].visible, !.complete = FALSE]
        /\ Writes(e, RaisedRow(exec[e]))
        /\ UNCHANGED <<job, run, published, recon, orphans, auth, permit, apple, troubles>>
    BY DEF Raise, Holds, Writes, RaisedRow
  <1>2. TypeOK /\ ExecOK(e) /\ CopyOK(e) /\ RowInv
    BY ExecParts
  <1>3. exec[e] \in ExecRows /\ exec[e].visible \in Prefixes
    BY <1>2, RowTypes
  <1>4. Rewrites(e) /\ exec'[e] = RaisedRow(exec[e])
    BY <1>1, <1>2, <1>3, RaisedFields, RowWritten
  <1>5. /\ exec'[e].pc = "announce" /\ exec'[e].list = exec[e].list
        /\ exec'[e].attempt = exec[e].attempt
        /\ exec'[e].submitted = exec[e].visible /\ exec'[e].visible = exec[e].visible
    BY <1>3, <1>4, RaisedFields
  <1>6. /\ row' \in [list: Lists \cup {NoList}, attempt: Attempts, appended: Prefixes, complete: BOOLEAN]
        /\ row'.list = row.list /\ row'.attempt = row.attempt /\ row'.appended = exec[e].visible
    <2>1. row \in [list: Lists \cup {NoList}, attempt: Attempts, appended: Prefixes, complete: BOOLEAN]
      BY <1>2 DEF TypeOK
    <2>. QED BY <1>1, <1>3, <2>1
  <1>7. "raise" \in Listed /\ "announce" \in Listed
        /\ "announce" \notin Unlisted \cup {"store", "control", "note", "raise"}
        /\ "raise" \notin Quiet
    BY DEF Listed, Unlisted, Quiet
  <1>8. /\ row.list = exec[e].list /\ row.attempt = exec[e].attempt /\ ~published
        /\ exec[e].list # NoList
    BY <1>1, <1>2, <1>7 DEF CopyOK, ExecOK, At
  <1>9. /\ lib[exec[e].list] # Nothing /\ exec[e].visible \in Marks
        /\ exec[e].visible <= lib[exec[e].list].held
    BY <1>1, <1>2, <1>8 DEF ExecOK, At, Exists
  <1>10. lib' = lib /\ published' = published /\ run' = run /\ job' = job
    BY <1>1 DEF apple
  <1>11. RowInv'
    <2>1. run = "complete" => published
      BY <1>2 DEF RowInv
    <2>. QED BY <1>6, <1>8, <1>9, <1>10, <2>1 DEF RowInv, Exists
  <1>12. ExecOK(e)'
    BY <1>5, <1>7, <1>8, <1>9, <1>10 DEF ExecOK, At, Exists
  <1>13. CopyOK(e)'
    BY <1>5, <1>6, <1>7, <1>8, <1>10 DEF CopyOK, At
  <1>. QED BY <1>1, <1>4, <1>6, <1>11, <1>12, <1>13, RowStep DEF At

\* The copy of the volume after its playlist is given up.
RenewedRow(r) ==
    [r EXCEPT !.pc = "control", !.list = NoList, !.attempt = r.attempt + 1,
              !.submitted = 0, !.visible = 0, !.diverged = FALSE]

LEMMA RenewedFields ==
    ASSUME NEW r \in ExecRows, r.attempt + 1 \in Attempts
    PROVE  LET s == RenewedRow(r) IN
           /\ s \in ExecRows /\ s.pc = "control" /\ s.list = NoList /\ s.attempt = r.attempt + 1
           /\ s.submitted = 0 /\ s.visible = 0
  <1>1. "control" \in PCs /\ 0 \in Prefixes /\ NoList \in Lists \cup {NoList} /\ FALSE \in BOOLEAN
    BY Classes, PrefixBounds
  <1>. QED BY <1>1 DEF ExecRows, RenewedRow

LEMMA ReplaceStep ==
    ASSUME IInv, NEW e \in Execs, Replace(e)
    PROVE  IInv'
  <1>1. /\ At(e, {"replace"})
        /\ UNCHANGED <<job, run, published, recon, orphans, auth, permit, apple, troubles>>
    BY DEF Replace
  <1>2. TypeOK /\ ExecOK(e) /\ CopyOK(e) /\ RowInv
    BY ExecParts
  <1>3. CASE ~MayReplace(e)
    <2>1. UNCHANGED row /\ Goto(e, "failed")
      BY <1>3 DEF Replace
    <2>2. "failed" \in Quiet /\ "failed" \in PCs
      BY Classes DEF Quiet
    <2>3. Frees(e)
      BY <1>1, NotItsPermit DEF At
    <2>. QED BY <1>1, <2>1, <2>2, <2>3, MoveStep DEF database, Calm
  <1>4. CASE MayReplace(e)
    <2>1. /\ Holds(e) /\ e = job.gen /\ row' = Replaced /\ Writes(e, RenewedRow(exec[e]))
          /\ exec[e].attempt < MaxReplacements
      BY <1>4 DEF Replace, Holds, Writes, RenewedRow, MayReplace
    <2>2. exec[e] \in ExecRows /\ exec[e].attempt \in Nat /\ exec[e].attempt + 1 \in Attempts
      <3>1. exec[e] \in ExecRows /\ exec[e].attempt \in Attempts
        BY <1>2, RowTypes
      <3>. QED BY <2>1, <3>1, ReplacementsAssumption DEF Attempts
    <2>3. Rewrites(e) /\ exec'[e] = RenewedRow(exec[e])
      BY <1>2, <2>1, <2>2, RenewedFields, RowWritten
    <2>4. /\ exec'[e].pc = "control" /\ exec'[e].list = NoList
          /\ exec'[e].attempt = exec[e].attempt + 1
          /\ exec'[e].submitted = 0 /\ exec'[e].visible = 0
      BY <2>2, <2>3, RenewedFields
    <2>5. "replace" \in Listed /\ "replace" \notin Quiet
          /\ "control" \notin Listed \cup Unlisted \cup {"store", "note", "raise"}
      BY DEF Listed, Unlisted, Quiet
    <2>6. row.attempt = exec[e].attempt /\ ~published
      BY <1>1, <1>2, <2>1, <2>5 DEF CopyOK, At
    <2>7. /\ row'.list = NoList /\ row'.attempt = exec[e].attempt + 1 /\ row'.appended = 0
          /\ row' \in [list: Lists \cup {NoList}, attempt: Attempts, appended: Prefixes, complete: BOOLEAN]
      BY <2>1, <2>2, <2>6, PrefixBounds DEF Replaced
    <2>8. published' = published /\ run' = run /\ job' = job
      BY <1>1
    <2>9. RowInv'
      <3>1. run = "complete" => published
        BY <1>2 DEF RowInv
      <3>. QED BY <2>6, <2>7, <2>8, <3>1, FirstAndLastMark DEF RowInv
    <2>10. ExecOK(e)' /\ CopyOK(e)'
      BY <2>4, <2>5, <2>6, <2>7, <2>8, FirstAndLastMark DEF ExecOK, CopyOK, At
    <2>. QED BY <1>1, <2>1, <2>3, <2>7, <2>9, <2>10, RowStep DEF At
  <1>. QED BY <1>3, <1>4

LEMMA FinishStep ==
    ASSUME IInv, NEW e \in Execs, Finish(e)
    PROVE  IInv'
  <1>1. /\ At(e, {"finish"}) /\ Holds(e) /\ e = job.gen
        /\ row' = [row EXCEPT !.appended = exec[e].submitted, !.complete = TRUE]
        /\ Goto(e, "confirm")
        /\ UNCHANGED <<job, run, published, recon, orphans, auth, permit, apple, troubles>>
    BY DEF Finish, Holds
  <1>2. TypeOK /\ ExecOK(e) /\ CopyOK(e) /\ RowInv
    BY ExecParts
  <1>3. "finish" \in Listed /\ "confirm" \in Listed /\ "confirm" \in PCs /\ "finish" \notin Quiet
        /\ "confirm" \notin Unlisted \cup {"store", "control", "note", "raise"}
    BY Classes DEF Listed, Unlisted, Quiet
  <1>4. Rewrites(e) /\ exec'[e].pc = "confirm" /\ CopyKept(e)
    BY <1>1, <1>2, <1>3, GotoRow
  <1>5. row.list = exec[e].list /\ row.attempt = exec[e].attempt /\ row.appended = exec[e].submitted
        /\ ~published
    BY <1>1, <1>2, <1>3 DEF CopyOK, At
  <1>6. /\ row' \in [list: Lists \cup {NoList}, attempt: Attempts, appended: Prefixes, complete: BOOLEAN]
        /\ row'.list = row.list /\ row'.attempt = row.attempt /\ row'.appended = row.appended
    <2>1. row \in [list: Lists \cup {NoList}, attempt: Attempts, appended: Prefixes, complete: BOOLEAN]
      BY <1>2 DEF TypeOK
    <2>. QED BY <1>1, <1>5, <2>1
  <1>7. lib' = lib /\ published' = published /\ run' = run /\ job' = job /\ seen' = seen
    BY <1>1 DEF apple
  <1>8. RowInv'
    BY <1>2, <1>6, <1>7 DEF RowInv, Exists
  <1>9. /\ exec[e].list # NoList /\ lib[exec[e].list] # Nothing
        /\ exec[e].submitted <= lib[exec[e].list].held
        /\ exec[e].submitted \in Marks /\ exec[e].visible \in Marks
    BY <1>1, <1>2, <1>3 DEF ExecOK, At, Exists
  <1>10. ExecOK(e)'
    BY <1>3, <1>4, <1>7, <1>9 DEF ExecOK, At, Exists, CopyKept
  <1>11. CopyOK(e)'
    BY <1>3, <1>4, <1>5, <1>6, <1>7 DEF CopyOK, At, CopyKept
  <1>. QED BY <1>1, <1>4, <1>6, <1>8, <1>10, <1>11, RowStep DEF At

LEMMA CommitStep ==
    ASSUME IInv, NEW e \in Execs, Commit(e)
    PROVE  IInv'
  <1>1. /\ At(e, {"commit"}) /\ Holds(e) /\ e = job.gen /\ ExactAttempt(e)
        /\ run' = "complete" /\ published' = TRUE
        /\ recon' = [recon EXCEPT !.state = "complete"]
        /\ Goto(e, "settle")
        /\ UNCHANGED <<job, row, orphans, auth, permit, apple, troubles>>
    BY DEF Commit, MayCommit, Holds
  <1>2. TypeOK /\ ExecOK(e) /\ LibInv /\ RowInv /\ PermitLocks
    BY ExecParts
  <1>3. UNCHANGED <<lib, seen, late>>
    BY <1>1 DEF apple
  <1>4. LibGrows /\ LibInv'
    BY <1>2, <1>3, LibKept
  <1>5. OtherTypes'
    <2>1. "complete" \in ReconStates
      BY DEF ReconStates
    <2>2. recon' \in [state: ReconStates, exec: 0..MaxExecs, appended: Prefixes, observed: BOOLEAN]
      BY <1>1, <1>2, <2>1, ReconTyped
    <2>. QED BY <1>1, <1>2, <2>2, TypesOfTypeOK DEF OtherTypes, apple
  <1>6. "settle" \in Quiet /\ "settle" \in PCs /\ "commit" \in Listed
    BY Classes DEF Quiet, Listed
  <1>7. Rewrites(e) /\ exec'[e].pc = "settle" /\ CopyKept(e)
    BY <1>1, <1>2, <1>6, GotoRow
  <1>8. ExecOK(e)' /\ CopyOK(e)'
    BY <1>2, <1>4, <1>5, <1>6, <1>7, Retreats
  <1>9. row.list \in Lists /\ row.list # NoList /\ row.appended = Count
    <2>1. row.list = exec[e].list /\ row.appended = Count
      BY <1>1 DEF ExactAttempt
    <2>2. exec[e].list # NoList /\ exec[e].list \in Lists \cup {NoList}
      BY <1>1, <1>2, <1>6, RowTypes DEF ExecOK, At
    <2>. QED BY <2>1, <2>2
  <1>10. lib[row.list].held = Count
    <2>1. lib[row.list] # Nothing /\ Count <= lib[row.list].held
      BY <1>2, <1>9 DEF RowInv, Exists
    <2>2. lib[row.list].held \in Prefixes
      BY <1>2, <1>9, <2>1, ListRow DEF TypeOK
    <2>. QED BY <2>1, <2>2, PrefixBounds
  <1>11. RowInv'
    <2>1. row' = row /\ lib' = lib
      BY <1>1, <1>3
    <2>. QED BY <1>1, <1>2, <1>9, <1>10, <2>1 DEF RowInv, Exists
  <1>12. Frees(e) /\ Fences(e) /\ EndsRun(e)
    BY <1>1, NotItsPermit DEF At, Fences, EndsRun
  <1>13. PermitLocks'
    BY <1>2, <1>7, <1>12, PermitKept
  <1>. QED BY <1>1, <1>4, <1>5, <1>7, <1>8, <1>11, <1>12, <1>13, Closing

-----------------------------------------------------------------------------
(* Writes.                                                                 *)

LEMMA AskToWriteStep ==
    ASSUME IInv, NEW e \in Execs, AskToWrite(e)
    PROVE  IInv'
  <1>1. /\ At(e, {"create", "append"}) /\ Holds(e) /\ e = job.gen /\ recon.exec = e
        /\ permit = NoExec /\ permit' = e
        /\ Goto(e, IF At(e, {"create"}) THEN "creating" ELSE "appending")
        /\ UNCHANGED <<database, apple, troubles>>
    BY DEF AskToWrite, PermitOpen, Holds
  <1>2. TypeOK /\ ExecOK(e) /\ CopyOK(e) /\ LibInv /\ RowInv
    BY ExecParts
  <1>3. UNCHANGED <<row, published, lib, seen, late, job, recon, run>>
    BY <1>1 DEF database, apple
  <1>4. LibGrows /\ LibInv'
    BY <1>2, <1>3, LibKept
  <1>5. OtherTypes'
    BY <1>1, <1>2, NumbersNotZero, SameTypes DEF Calm
  <1>6. PICK x \in PCs :
           /\ Goto(e, x) /\ x \in {"creating", "appending"}
           /\ \/ exec[e].pc \in Listed /\ x \in Listed \ {"note", "raise"}
              \/ exec[e].pc \in Unlisted /\ x \in Unlisted
    <2>1. /\ {"create", "creating"} \subseteq Unlisted
          /\ {"append", "appending"} \subseteq Listed \ {"note", "raise"}
      BY DEF Listed, Unlisted
    <2>2. "creating" \in PCs /\ "appending" \in PCs
      BY <2>1, Classes
    <2>. QED BY <1>1, <2>1, <2>2 DEF At
  <1>7. Rewrites(e) /\ exec'[e].pc = x /\ CopyKept(e)
    BY <1>2, <1>6, GotoRow
  <1>8. ExecOK(e)' /\ CopyOK(e)'
    BY <1>2, <1>3, <1>4, <1>5, <1>6, <1>7, Advances
  <1>9. RowInv'
    BY <1>2, <1>3 DEF RowInv, Exists
  <1>10. /\ row.attempt = exec[e].attempt /\ row.list = exec[e].list /\ ~published
         /\ run \notin {"cancelled", "complete"}
    <2>1. exec[e].pc \in Listed \cup Unlisted /\ exec[e].pc \notin Quiet
      BY <1>6, Classes
    <2>. QED BY <1>1, <1>2, <2>1 DEF CopyOK, At, RowInv, Holds, Cancelled
  <1>11. PermitLocks'
    <2>1. Owns(e)
      BY <1>1 DEF Holds, Owns
    <2>2. /\ At(e, {"creating", "appending"})' /\ row'.attempt = exec'[e].attempt
          /\ row'.list = exec'[e].list
      BY <1>3, <1>6, <1>7, <1>10 DEF At, CopyKept
    <2>. QED BY <1>1, <1>3, <1>10, <2>1, <2>2 DEF PermitLocks, Owns, At
  <1>12. Fences(e)
    BY <1>1 DEF Fences
  <1>. QED BY <1>3, <1>4, <1>5, <1>7, <1>8, <1>9, <1>11, <1>12, Closing

\* The row still says the truth of a library that grows.
LEMMA RowKept ==
    ASSUME TypeOK, OtherTypes', LibGrows, RowInv, UNCHANGED <<row, published>>,
           run' = "complete" => run' = run
    PROVE  RowInv'
  <1>1. row.list \in Lists \cup {NoList} /\ row.appended \in Prefixes
    BY DEF TypeOK
  <1>2. row.list # NoList => lib'[row.list] # Nothing /\ row.appended <= lib'[row.list].held
    <2>1. SUFFICES ASSUME row.list # NoList
                   PROVE  lib'[row.list] # Nothing /\ row.appended <= lib'[row.list].held
      OBVIOUS
    <2>2. row.list \in Lists /\ Exists(row.list) /\ row.appended <= lib[row.list].held
          /\ row.appended \in Nat
      BY <1>1, <2>1, PrefixBounds DEF RowInv
    <2>. QED BY <2>2, KnownKept
  <1>3. published => lib'[row.list].held = Count
    <2>1. SUFFICES ASSUME published PROVE lib'[row.list].held = Count
      OBVIOUS
    <2>2. row.list \in Lists /\ Exists(row.list) /\ lib[row.list].held = Count
      BY <1>1, <2>1 DEF RowInv
    <2>3. lib'[row.list] # Nothing /\ Count <= lib'[row.list].held
      BY <2>2, PrefixBounds, KnownKept
    <2>4. lib' \in [Lists -> Playlists \cup {Nothing}]
      BY DEF OtherTypes
    <2>5. lib'[row.list].held \in Prefixes
      BY <2>2, <2>3, <2>4, ListRow
    <2>. QED BY <2>3, <2>5, PrefixBounds
  <1>. QED BY <1>2, <1>3 DEF RowInv, Exists

\* One playlist of the library is written, and none gets shorter.
WritesList(p, v) == lib' = [lib EXCEPT ![p] = v]

LEMMA ListWritten ==
    ASSUME TypeOK, LibInv, NEW p \in Lists, NEW v \in Playlists, WritesList(p, v),
           v.held \in Marks, Exists(p) => lib[p].held <= v.held,
           UNCHANGED seen,
           \A r \in late' : r \in late \/ (r.kind = "append" => Exists(r.list) /\ r.list \in Lists /\ r.from \in Marks)
    PROVE  lib' \in [Lists -> Playlists \cup {Nothing}] /\ lib'[p] = v /\ LibGrows /\ LibInv'
  <1>1. /\ lib \in [Lists -> Playlists \cup {Nothing}] /\ late \subseteq Requests
        /\ seen \in [Lists -> Playlists \cup {Nothing}]
    BY DEF TypeOK
  <1>2. /\ lib' \in [Lists -> Playlists \cup {Nothing}] /\ lib'[p] = v
        /\ \A q \in Lists : q # p => lib'[q] = lib[q]
    BY <1>1 DEF WritesList
  <1>3. v # Nothing
    <2>1. v.marker \in Attempts /\ -1 \notin Attempts
      BY ReplacementsAssumption DEF Playlists, Attempts
    <2>2. Nothing.marker = -1
      BY DEF Nothing
    <2>. QED BY <2>1, <2>2
  <1>4. ASSUME NEW q \in Lists, lib[q] # Nothing
        PROVE  lib'[q] # Nothing /\ lib[q].held <= lib'[q].held /\ lib[q].held \in Nat /\ lib'[q].held \in Nat
    <2>1. lib[q].held \in Nat
      BY <1>1, <1>4, ListRow
    <2>2. CASE q = p
      BY <1>2, <1>3, <1>4, <2>1, <2>2, PrefixBounds DEF Exists
    <2>3. CASE q # p
      BY <1>2, <1>4, <2>1, <2>3
    <2>. QED BY <2>2, <2>3
  <1>5. LibGrows
    BY <1>4 DEF LibGrows, Exists
  <1>6. ASSUME NEW q \in Lists, lib'[q] # Nothing PROVE lib'[q].held \in Marks
    <2>1. CASE q = p
      BY <1>2, <2>1
    <2>2. CASE q # p
      BY <1>2, <1>6, <2>2 DEF LibInv, Exists
    <2>. QED BY <2>1, <2>2
  <1>7. ASSUME NEW q \in Lists, seen'[q] # Nothing
        PROVE  lib'[q] # Nothing /\ seen'[q].held \in Marks /\ seen'[q].held <= lib'[q].held
    <2>1. lib[q] # Nothing /\ seen'[q].held \in Marks /\ seen'[q].held <= lib[q].held
      BY <1>7 DEF LibInv, Exists
    <2>2. seen'[q].held \in Nat
      BY <2>1, PrefixBounds
    <2>. QED BY <1>4, <2>1, <2>2
  <1>8. ASSUME NEW r \in late', r.kind = "append"
        PROVE  lib'[r.list] # Nothing /\ r.from \in Marks
    <2>1. CASE r \in late
      <3>1. r \in Requests
        BY <1>1, <2>1
      <3>2. r.list \in Lists
        BY <1>8, <3>1 DEF Requests
      <3>. QED BY <1>4, <1>8, <2>1, <3>2 DEF LibInv, Exists
    <2>2. CASE Exists(r.list) /\ r.list \in Lists /\ r.from \in Marks
      BY <1>4, <2>2 DEF Exists
    <2>. QED BY <1>8, <2>1, <2>2
  <1>9. LibInv'
    BY <1>6, <1>7, <1>8 DEF LibInv, Exists
  <1>. QED BY <1>2, <1>5, <1>9

Grown(v, held) == [v EXCEPT !.held = held]
Broken(v, how) == [v EXCEPT !.broken = how]

LEMMA ListForms ==
    ASSUME NEW v \in Playlists, NEW held \in Prefixes, NEW how \in {"writes", "owner"}
    PROVE  /\ Grown(v, held) \in Playlists /\ Grown(v, held).held = held
           /\ Broken(v, how) \in Playlists /\ Broken(v, how).held = v.held
  BY DEF Playlists, Grown, Broken

\* What Apple applies: a new playlist, or a batch at the end of one.
LEMMA WriteApplied ==
    ASSUME TypeOK, LibInv, NEW r \in Requests, NEW p \in Lists, Applies(r, p),
           r.kind = "append" => Exists(r.list) /\ r.from \in Marks,
           UNCHANGED seen, late' \subseteq late
    PROVE  /\ lib' \in [Lists -> Playlists \cup {Nothing}] /\ LibGrows /\ LibInv'
           /\ lib'[p] # Nothing
           /\ r.kind = "append" /\ r.from <= lib[r.list].held
                => Smaller(r.from + Batch, Count) <= lib'[r.list].held
  <1>1. \A q \in late' : q \in late
    OBVIOUS
  <1>2. CASE r.kind = "create" /\ Unused(p) /\ lib' = Created(p, r.marker)
    <2>1. r.marker \in Attempts
      BY <1>2 DEF Requests
    <2>2. PICK v \in Playlists : v.held = 0 /\ WritesList(p, v)
      <3>1. 0 \in Prefixes /\ "no" \in {"no", "writes", "owner"}
        BY PrefixBounds
      <3>2. [marker |-> r.marker, held |-> 0, broken |-> "no", gone |-> FALSE] \in Playlists
        BY <2>1, <3>1 DEF Playlists
      <3>. QED BY <1>2, <3>2 DEF Created, WritesList
    <2>3. ~Exists(p)
      BY <1>2 DEF Unused
    <2>4. /\ lib' \in [Lists -> Playlists \cup {Nothing}] /\ LibGrows /\ LibInv'
      BY <1>1, <2>2, <2>3, FirstAndLastMark, ListWritten
    <2>5. lib'[p] # Nothing
      <3>1. lib'[p] = v
        BY <1>1, <2>2, <2>3, FirstAndLastMark, ListWritten
      <3>2. v.marker \in Attempts /\ -1 \notin Attempts
        BY ReplacementsAssumption DEF Playlists, Attempts
      <3>. QED BY <3>1, <3>2 DEF Nothing
    <2>. QED BY <1>2, <2>4, <2>5
  <1>3. CASE r.kind = "append" /\ p = r.list /\ lib' = Appended(p, r.from)
    <2>1. Exists(p) /\ r.from \in Marks /\ lib[p] \in Playlists /\ lib[p].held \in Marks
      <3>1. lib \in [Lists -> Playlists \cup {Nothing}]
        BY DEF TypeOK
      <3>2. Exists(p) /\ r.from \in Marks
        BY <1>3
      <3>. QED BY <3>1, <3>2, ListRow DEF Exists, LibInv
    <2>2. /\ lib[p].held \in Nat /\ r.from \in Nat
          /\ Smaller(r.from + Batch, Count) \in Marks
          /\ Smaller(r.from + Batch, Count) \in Prefixes /\ Smaller(r.from + Batch, Count) \in Nat
      BY <2>1, NextMark, PrefixBounds
    <2>3. CASE lib[p].held = r.from
      <3>1. WritesList(p, Grown(lib[p], Smaller(r.from + Batch, Count)))
        BY <1>3, <2>3 DEF Appended, WritesList, Grown
      <3>2. r.from <= Smaller(r.from + Batch, Count)
        BY <2>1, NextMark
      <3>3. PICK v \in Playlists : v.held = Smaller(r.from + Batch, Count) /\ WritesList(p, v)
        BY <2>1, <2>2, <3>1, ListForms
      <3>4. lib' \in [Lists -> Playlists \cup {Nothing}] /\ lib'[p] = v /\ LibGrows /\ LibInv'
        BY <1>1, <2>2, <2>3, <3>2, <3>3, ListWritten
      <3>5. lib'[p] # Nothing
        BY <2>1, <3>4 DEF LibGrows, Exists
      <3>. QED BY <1>3, <2>2, <3>3, <3>4, <3>5
    <2>4. CASE lib[p].held # r.from
      <3>1. WritesList(p, Broken(lib[p], "writes"))
        BY <1>3, <2>4 DEF Appended, WritesList, Broken
      <3>2. PICK v \in Playlists : v.held = lib[p].held /\ WritesList(p, v)
        BY <2>1, <2>2, <3>1, ListForms
      <3>3. lib' \in [Lists -> Playlists \cup {Nothing}] /\ lib'[p] = v /\ LibGrows /\ LibInv'
        BY <1>1, <2>1, <2>2, <3>2, ListWritten
      <3>4. lib'[p] # Nothing
        BY <2>1, <3>3 DEF LibGrows, Exists
      <3>5. r.from <= lib[p].held => Smaller(r.from + Batch, Count) <= lib'[p].held
        <4>1. r.from <= lib[p].held => r.from < lib[p].held
          BY <2>2, <2>4
        <4>. QED BY <2>1, <3>2, <3>3, <4>1, NextMark
      <3>. QED BY <1>3, <3>3, <3>4, <3>5
    <2>. QED BY <2>3, <2>4
  <1>. QED BY <1>2, <1>3 DEF Applies

LEMMA RequestTyped ==
    ASSUME TypeOK, NEW e \in Execs, ExecOK(e), At(e, {"creating", "appending"})
    PROVE  /\ Request(e) \in Requests
           /\ At(e, {"creating"}) => Request(e).kind = "create"
           /\ ~At(e, {"creating"}) =>
                /\ Request(e).kind = "append" /\ Request(e).list = exec[e].list
                /\ Request(e).from = exec[e].submitted
                /\ exec[e].list \in Lists /\ Exists(exec[e].list)
                /\ exec[e].submitted \in Marks
                /\ exec[e].submitted <= lib[exec[e].list].held
  <1>1. CASE At(e, {"creating"})
    <2>1. exec[e].attempt \in Attempts
      BY RowTypes
    <2>. QED BY <1>1, <2>1 DEF Request, Requests
  <1>2. CASE ~At(e, {"creating"})
    <2>1. exec[e].pc \in Listed
      BY <1>2 DEF At, Listed
    <2>2. /\ exec[e].list \in Lists /\ exec[e].submitted \in Prefixes /\ Exists(exec[e].list)
          /\ exec[e].submitted \in Marks /\ exec[e].submitted <= lib[exec[e].list].held
      BY <2>1, RowTypes DEF ExecOK, At
    <2>3. Request(e) = [kind |-> "append", list |-> exec[e].list, from |-> exec[e].submitted]
      BY <1>2 DEF Request
    <2>4. Request(e) \in Requests
      BY <2>2, <2>3 DEF Requests
    <2>5. Request(e).kind = "append" /\ Request(e).list = exec[e].list
          /\ Request(e).from = exec[e].submitted
      BY <2>3
    <2>. QED BY <1>2, <2>2, <2>4, <2>5
  <1>. QED BY <1>1, <1>2

\* A step of an execution that writes nothing but its row, the permit, Apple
\* and the troubles left.
LEMMA WriteStep ==
    ASSUME IInv, NEW e \in Execs, Rewrites(e), OtherTypes', LibGrows, LibInv',
           UNCHANGED database, Frees(e), ExecOK(e)', CopyOK(e)'
    PROVE  IInv'
  <1>1. TypeOK /\ RowInv /\ PermitLocks
    BY ExecParts
  <1>2. UNCHANGED <<job, run, published, row, recon>>
    BY DEF database
  <1>3. Fences(e) /\ EndsRun(e)
    BY <1>2 DEF Fences, EndsRun
  <1>4. RowInv'
    BY <1>1, <1>2, RowKept
  <1>5. PermitLocks'
    BY <1>1, <1>3, PermitKept
  <1>. QED BY <1>2, <1>3, <1>4, <1>5, Closing

Applied(r, x, visible) == [r EXCEPT !.pc = x, !.next = "look", !.visible = visible]

LEMMA AppliedRow ==
    ASSUME NEW r \in ExecRows, NEW x \in PCs, NEW visible \in Prefixes
    PROVE  LET s == Applied(r, x, visible) IN
           /\ s \in ExecRows /\ s.pc = x /\ s.list = r.list /\ s.attempt = r.attempt
           /\ s.submitted = r.submitted /\ s.visible = visible
  BY DEF ExecRows, Applied

\* The row of an execution whose permit was lost during its creation.
Dropped(r) == [r EXCEPT !.pc = "failed", !.list = NoList]

LEMMA DroppedRow ==
    ASSUME NEW r \in ExecRows, r.list = NoList
    PROVE  LET s == Dropped(r) IN
           /\ s \in ExecRows /\ s.pc = "failed" /\ s.list = r.list /\ s.attempt = r.attempt
           /\ s.submitted = r.submitted /\ s.visible = r.visible
  <1>1. "failed" \in PCs /\ NoList \in Lists \cup {NoList}
    BY DEF PCs
  <1>. QED BY <1>1 DEF ExecRows, Dropped

LEMMA AnsweredStep ==
    ASSUME IInv, NEW e \in Execs, Answered(e)
    PROVE  IInv'
  <1>1. /\ At(e, {"creating", "appending"}) /\ Release(e)
        /\ UNCHANGED <<database, seen, late, troubles>>
    BY DEF Answered
  <1>2. PICK p \in Lists :
           /\ Applies(Request(e), p)
           /\ exec' = [exec EXCEPT ![e] =
                IF At(e, {"creating"})
                THEN [exec[e] EXCEPT !.pc = Or(e, "store"), !.list = IF permit = e THEN p ELSE NoList]
                ELSE [exec[e] EXCEPT !.pc = Or(e, "raise"), !.next = "look",
                               !.visible = IF permit = e THEN Target(e) ELSE exec[e].visible]]
    BY DEF Answered
  <1>3. TypeOK /\ ExecOK(e) /\ CopyOK(e) /\ LibInv
    BY ExecParts
  <1>4. exec[e] \in ExecRows /\ exec[e].submitted \in Prefixes /\ exec[e].visible \in Prefixes
    BY <1>3, RowTypes
  <1>5. /\ lib' \in [Lists -> Playlists \cup {Nothing}] /\ LibGrows /\ LibInv' /\ lib'[p] # Nothing
        /\ ~At(e, {"creating"}) =>
             Smaller(exec[e].submitted + Batch, Count) <= lib'[exec[e].list].held
    <2>1. late' \subseteq late /\ UNCHANGED seen
      BY <1>1
    <2>. QED BY <1>1, <1>2, <1>3, <2>1, RequestTyped, WriteApplied
  <1>6. Frees(e)
    BY <1>1, Releases
  <1>7. OtherTypes'
    <2>1. permit' \in 0..MaxExecs
      BY <1>3, <1>6, PermitTyped DEF Frees
    <2>. QED BY <1>1, <1>3, <1>5, <2>1, TypesOfTypeOK DEF OtherTypes, database
  <1>8. UNCHANGED <<row, published, job>>
    BY <1>1 DEF database
  <1>9. CASE At(e, {"creating"}) /\ permit = e
    <2>1. Writes(e, Taken(exec[e], p))
      BY <1>2, <1>9 DEF Writes, Taken, Or
    <2>2. exec[e].pc \in Unlisted
      BY <1>9 DEF At, Unlisted
    <2>3. Rewrites(e) /\ ExecOK(e)' /\ CopyOK(e)'
      BY <1>3, <1>5, <1>7, <1>8, <2>1, <2>2, TakesList
    <2>. QED BY <1>1, <1>5, <1>6, <1>7, <2>3, WriteStep
  <1>10. CASE At(e, {"creating"}) /\ permit # e
    <2>1. Writes(e, Dropped(exec[e]))
      BY <1>2, <1>10 DEF Writes, Dropped, Or
    <2>2. exec[e].list = NoList
      BY <1>3, <1>10 DEF At, Unlisted, ExecOK
    <2>3. Rewrites(e) /\ exec'[e] = Dropped(exec[e])
      BY <1>3, <1>4, <2>1, <2>2, DroppedRow, RowWritten
    <2>4. exec'[e].pc \in Quiet /\ CopyKept(e)
      BY <1>4, <2>2, <2>3, DroppedRow DEF Quiet, CopyKept
    <2>5. ExecOK(e)' /\ CopyOK(e)'
      BY <1>3, <1>5, <1>7, <2>4, Retreats
    <2>. QED BY <1>1, <1>5, <1>6, <1>7, <2>3, <2>5, WriteStep
  <1>11. CASE ~At(e, {"creating"}) /\ permit = e
    <2>1. Writes(e, Applied(exec[e], "raise", Target(e)))
      BY <1>2, <1>11 DEF Writes, Applied, Or
    <2>2. /\ Target(e) \in Marks /\ Target(e) \in Prefixes
          /\ Target(e) <= lib'[exec[e].list].held
      <3>1. exec[e].submitted \in Marks
        BY <1>3 DEF ExecOK
      <3>. QED BY <1>5, <1>11, <3>1, NextMark, PrefixBounds DEF Target
    <2>3. "raise" \in PCs /\ "raise" \in Listed /\ exec[e].pc \in Listed
      BY <1>1, <1>11, Classes DEF At, Listed
    <2>4. Rewrites(e) /\ exec'[e] = Applied(exec[e], "raise", Target(e))
      BY <1>3, <1>4, <2>1, <2>2, <2>3, AppliedRow, RowWritten
    <2>5. /\ exec'[e].pc = "raise" /\ exec'[e].visible = Target(e)
          /\ exec'[e].list = exec[e].list /\ exec'[e].attempt = exec[e].attempt
          /\ exec'[e].submitted = exec[e].submitted
      BY <1>4, <2>2, <2>3, <2>4, AppliedRow
    <2>6. ExecOK(e)' /\ CopyOK(e)'
      BY <1>3, <1>5, <1>7, <1>8, <2>2, <2>3, <2>5, Observes
    <2>. QED BY <1>1, <1>5, <1>6, <1>7, <2>4, <2>6, WriteStep
  <1>12. CASE ~At(e, {"creating"}) /\ permit # e
    <2>1. Writes(e, Applied(exec[e], "recheck", exec[e].visible))
      BY <1>2, <1>12 DEF Writes, Applied, Or
    <2>2. "recheck" \in PCs /\ "recheck" \in Listed \ {"note", "raise"} /\ exec[e].pc \in Listed
      BY <1>1, <1>12, Classes DEF At, Listed
    <2>3. Rewrites(e) /\ exec'[e] = Applied(exec[e], "recheck", exec[e].visible)
      BY <1>3, <1>4, <2>1, <2>2, AppliedRow, RowWritten
    <2>4. exec'[e].pc = "recheck" /\ CopyKept(e)
      BY <1>4, <2>2, <2>3, AppliedRow DEF CopyKept
    <2>5. ExecOK(e)' /\ CopyOK(e)'
      BY <1>3, <1>5, <1>7, <1>8, <2>2, <2>4, Advances
    <2>. QED BY <1>1, <1>5, <1>6, <1>7, <2>3, <2>5, WriteStep
  <1>. QED BY <1>9, <1>10, <1>11, <1>12

\* A write nobody awaits was fit to be sent.
LEMMA WriteLeft ==
    ASSUME IInv, NEW e \in Execs, At(e, {"creating", "appending"}), LeftBehind(e),
           UNCHANGED <<lib, seen>>
    PROVE  late' \subseteq Requests /\ LibInv'
  <1>1. TypeOK /\ ExecOK(e) /\ LibInv
    BY ExecParts
  <1>2. late \subseteq Requests
    BY <1>1 DEF TypeOK
  <1>3. Request(e) \in Requests
    BY <1>1, RequestTyped
  <1>4. Request(e).kind = "append" => Exists(Request(e).list) /\ Request(e).from \in Marks
    BY <1>1, RequestTyped
  <1>5. late' = late \/ late' = late \cup {Request(e)}
    BY DEF LeftBehind
  <1>6. \A r \in late' : r.kind = "append" => Exists(r.list) /\ r.from \in Marks
    BY <1>1, <1>4, <1>5 DEF LibInv
  <1>. QED BY <1>1, <1>2, <1>3, <1>5, <1>6 DEF LibInv, Exists

LEMMA TimesOutStep ==
    ASSUME IInv, NEW e \in Execs, TimesOut(e)
    PROVE  IInv'
  <1>1. /\ At(e, {"creating", "appending"}) /\ Trouble /\ LeftBehind(e) /\ Release(e)
        /\ Goto(e, Or(e, AfterTimeout(e)))
        /\ UNCHANGED <<database, lib, seen>>
    BY DEF TimesOut
  <1>2. TypeOK /\ ExecOK(e) /\ CopyOK(e)
    BY ExecParts
  <1>3. UNCHANGED <<row, published, job>>
    BY <1>1 DEF database
  <1>4. late' \subseteq Requests /\ LibInv' /\ LibGrows
    BY <1>1, <1>2, WriteLeft, LibKept
  <1>5. Frees(e)
    BY <1>1, Releases
  <1>6. OtherTypes'
    <2>1. permit' \in 0..MaxExecs /\ troubles' \in 0..MaxTroubles
      BY <1>1, <1>2, <1>5, PermitTyped, TroublesTyped DEF Frees
    <2>. QED BY <1>1, <1>2, <1>4, <2>1, TypesOfTypeOK DEF OtherTypes, database
  <1>7. AfterTimeout(e) \in {"block", "refind", "verify"}
    BY DEF AfterTimeout
  <1>8. PICK x \in PCs :
           /\ Goto(e, x)
           /\ \/ x \in Quiet
              \/ exec[e].pc \in Listed /\ x \in Listed \ {"note", "raise"}
              \/ exec[e].pc \in Unlisted /\ x \in Unlisted
    BY <1>1, <1>7, OrMoves
  <1>9. Rewrites(e) /\ exec'[e].pc = x /\ CopyKept(e)
    BY <1>2, <1>8, GotoRow
  <1>10. ExecOK(e)' /\ CopyOK(e)'
    <2>1. CASE x \in Quiet
      BY <1>2, <1>4, <1>6, <1>9, <2>1, Retreats
    <2>2. CASE x \notin Quiet
      BY <1>2, <1>3, <1>4, <1>6, <1>8, <1>9, <2>2, Advances
    <2>. QED BY <2>1, <2>2
  <1>. QED BY <1>1, <1>4, <1>5, <1>6, <1>9, <1>10, WriteStep

LEMMA VanishStep ==
    ASSUME IInv, NEW e \in Execs, Vanish(e)
    PROVE  IInv'
  <1>1. /\ Trouble \/ Calm
        /\ Ends(e) /\ Release(e)
        /\ At(e, {"creating", "appending"}) => LeftBehind(e)
        /\ ~At(e, {"creating", "appending"}) => UNCHANGED late
        /\ UNCHANGED <<database, lib, seen>>
    BY DEF Vanish, Release
  <1>2. TypeOK /\ LibInv
    BY ExecParts
  <1>3. late' \subseteq Requests /\ LibInv' /\ LibGrows
    <2>1. CASE At(e, {"creating", "appending"})
      BY <1>1, <1>2, <2>1, WriteLeft, LibKept
    <2>2. CASE ~At(e, {"creating", "appending"})
      <3>1. late \subseteq Requests
        BY <1>2 DEF TypeOK
      <3>. QED BY <1>1, <1>2, <2>2, <3>1, LibKept
    <2>. QED BY <2>1, <2>2
  <1>4. Frees(e)
    BY <1>1, Releases
  <1>5. OtherTypes'
    <2>1. permit' \in 0..MaxExecs /\ troubles' \in 0..MaxTroubles
      BY <1>1, <1>2, <1>4, PermitTyped, TroublesTyped DEF Frees
    <2>. QED BY <1>1, <1>2, <1>3, <2>1, TypesOfTypeOK DEF OtherTypes, database
  <1>. QED BY <1>1, <1>3, <1>4, <1>5, EndsQuietly, WriteStep

-----------------------------------------------------------------------------
(* Leases, requests and Apple.                                             *)

\* No execution moves.
LEMMA OutsideStep ==
    ASSUME IInv, UNCHANGED exec, OtherTypes', LibGrows, LibInv', PermitLocks',
           UNCHANGED <<row, published>>, job'.gen = job.gen,
           run' = "complete" => run' = run
    PROVE  IInv'
  <1>1. TypeOK /\ RowInv /\ ExecsInv
    BY DEF IInv
  <1>2. ASSUME NEW d \in Execs PROVE ExecOK(d)' /\ CopyOK(d)'
    <2>1. ExecOK(d) /\ CopyOK(d)
      BY <1>1 DEF ExecsInv
    <2>2. /\ exec[d].list # NoList =>
                lib'[exec[d].list] # Nothing /\ exec[d].submitted <= lib'[exec[d].list].held
          /\ At(d, {"note", "raise"}) => exec[d].visible <= lib'[exec[d].list].held
      BY <1>1, <2>1, CopyKnown
    <2>. QED BY <2>1, <2>2 DEF ExecOK, CopyOK, At, Exists
  <1>3. RowInv'
    BY <1>1, RowKept
  <1>4. TypeOK'
    BY <1>1, TypesOfTypeOK
  <1>. QED BY <1>2, <1>3, <1>4 DEF IInv, ExecsInv

\* Apple alone changes, and the troubles left.
LEMMA AppleStep ==
    ASSUME IInv, UNCHANGED <<database, permit, exec>>, LibGrows, LibInv', Trouble \/ Calm,
           lib' \in [Lists -> Playlists \cup {Nothing}],
           seen' \in [Lists -> Playlists \cup {Nothing}], late' \subseteq late
    PROVE  IInv'
  <1>1. TypeOK /\ PermitLocks
    BY DEF IInv
  <1>2. UNCHANGED <<job, run, published, row, recon, orphans, auth>>
    BY DEF database
  <1>3. OtherTypes'
    <2>1. late \subseteq Requests /\ troubles' \in 0..MaxTroubles
      BY <1>1, TroublesTyped DEF TypeOK
    <2>. QED BY <1>1, <1>2, <2>1, TypesOfTypeOK DEF OtherTypes
  <1>4. PermitLocks'
    BY <1>1, <1>2 DEF PermitLocks, Owns, At
  <1>. QED BY <1>2, <1>3, <1>4, OutsideStep

LEMMA ShowsStep ==
    ASSUME IInv, NEW p \in Lists, Shows(p)
    PROVE  IInv'
  <1>1. /\ seen[p] # lib[p] /\ seen' = [seen EXCEPT ![p] = lib[p]]
        /\ UNCHANGED <<database, permit, exec, lib, late, troubles>>
    BY DEF Shows
  <1>2. TypeOK /\ LibInv
    BY DEF IInv
  <1>3. lib \in [Lists -> Playlists \cup {Nothing}] /\ seen \in [Lists -> Playlists \cup {Nothing}]
    BY <1>2 DEF TypeOK
  <1>4. seen' \in [Lists -> Playlists \cup {Nothing}]
    BY <1>1, <1>3
  <1>5. ASSUME NEW q \in Lists, seen'[q] # Nothing
        PROVE  lib[q] # Nothing /\ seen'[q].held \in Marks /\ seen'[q].held <= lib[q].held
    <2>1. CASE q = p
      <3>1. lib[q] # Nothing /\ seen'[q] = lib[q]
        BY <1>1, <1>3, <1>5, <2>1
      <3>2. lib[q].held \in Nat /\ lib[q].held \in Marks
        BY <1>2, <1>3, <3>1, ListRow DEF LibInv, Exists
      <3>. QED BY <3>1, <3>2
    <2>2. CASE q # p
      BY <1>1, <1>2, <1>3, <1>5, <2>2 DEF LibInv, Exists
    <2>. QED BY <2>1, <2>2
  <1>6. LibInv'
    BY <1>1, <1>2, <1>5 DEF LibInv, Exists
  <1>7. LibGrows
    <2>1. ASSUME NEW q \in Lists, Exists(q) PROVE lib[q].held \in Nat
      BY <1>3, <2>1, ListRow DEF Exists
    <2>. QED BY <1>1, <2>1 DEF LibGrows, Exists
  <1>. QED BY <1>1, <1>3, <1>4, <1>6, <1>7, AppleStep DEF Calm

LEMMA LateArrivesStep ==
    ASSUME IInv, LateArrives
    PROVE  IInv'
  <1>1. PICK r \in late :
           late' = late \ {r} /\ (UNCHANGED lib \/ \E p \in Lists : Applies(r, p))
    BY DEF LateArrives
  <1>2. UNCHANGED <<database, permit, exec, seen, troubles>>
    BY DEF LateArrives
  <1>3. TypeOK /\ LibInv
    BY DEF IInv
  <1>4. r \in Requests /\ late' \subseteq late
        /\ (r.kind = "append" => Exists(r.list) /\ r.from \in Marks)
    BY <1>1, <1>3 DEF TypeOK, LibInv
  <1>5. lib \in [Lists -> Playlists \cup {Nothing}] /\ seen \in [Lists -> Playlists \cup {Nothing}]
    BY <1>3 DEF TypeOK
  <1>6. lib' \in [Lists -> Playlists \cup {Nothing}] /\ LibGrows /\ LibInv'
    <2>1. CASE UNCHANGED lib
      <3>1. LibInv'
        BY <1>2, <1>3, <1>4, <2>1 DEF LibInv, Exists
      <3>. QED BY <1>2, <1>3, <1>5, <2>1, <3>1, LibKept
    <2>2. CASE \E p \in Lists : Applies(r, p)
      BY <1>2, <1>3, <1>4, <2>2, WriteApplied
    <2>. QED BY <1>1, <2>1, <2>2
  <1>. QED BY <1>2, <1>4, <1>5, <1>6, AppleStep DEF Calm

GoneRow(v) == [v EXCEPT !.gone = TRUE]

\* The owner changes a playlist.
LEMMA OwnerSteps ==
    ASSUME IInv, NEW p \in Lists, OwnerEdits(p) \/ OwnerDeletes(p)
    PROVE  IInv'
  <1>1. /\ Exists(p) /\ Trouble
        /\ UNCHANGED <<database, permit, exec, seen, late>>
        /\ WritesList(p, Broken(lib[p], "owner")) \/ WritesList(p, GoneRow(lib[p]))
    BY DEF OwnerEdits, OwnerDeletes, WritesList, Broken, GoneRow
  <1>2. TypeOK /\ LibInv
    BY DEF IInv
  <1>3. lib \in [Lists -> Playlists \cup {Nothing}] /\ seen \in [Lists -> Playlists \cup {Nothing}]
    BY <1>2 DEF TypeOK
  <1>4. lib[p] \in Playlists /\ lib[p].held \in Prefixes /\ lib[p].held \in Nat /\ lib[p].held \in Marks
    BY <1>1, <1>2, <1>3, ListRow DEF Exists, LibInv
  <1>5. PICK v \in Playlists : v.held = lib[p].held /\ WritesList(p, v)
    <2>1. GoneRow(lib[p]) \in Playlists /\ GoneRow(lib[p]).held = lib[p].held
      BY <1>4 DEF GoneRow, Playlists
    <2>2. Broken(lib[p], "owner") \in Playlists /\ Broken(lib[p], "owner").held = lib[p].held
      BY <1>4, ListForms
    <2>. QED BY <1>1, <2>1, <2>2
  <1>6. lib' \in [Lists -> Playlists \cup {Nothing}] /\ LibGrows /\ LibInv'
    <2>1. \A r \in late' : r \in late
      BY <1>1
    <2>. QED BY <1>1, <1>2, <1>4, <1>5, <2>1, ListWritten
  <1>. QED BY <1>1, <1>3, <1>6, AppleStep

LEMMA AppleSame ==
    ASSUME IInv, UNCHANGED apple
    PROVE  LibGrows /\ LibInv'
  BY LibKept DEF IInv, apple

\* A new execution takes the job.
LEMMA TakeStep ==
    ASSUME IInv, Take
    PROVE  IInv'
  <1>1. PICK e \in Execs :
           /\ e = job.gen + 1 /\ permit = NoExec
           /\ job' = [status |-> "leased", gen |-> e]
           /\ exec' = [exec EXCEPT ![e] = [Unstarted EXCEPT !.pc = "preflight"]]
           /\ UNCHANGED <<run, published, row, recon, orphans, auth, permit, apple, troubles>>
    BY DEF Take, MayTake
  <1>2. TypeOK /\ RowInv /\ ExecsInv
    BY DEF IInv
  <1>3. LibGrows /\ LibInv'
    BY <1>1, AppleSame
  <1>4. Writes(e, [Unstarted EXCEPT !.pc = "preflight"])
    BY <1>1 DEF Writes
  <1>5. PICK r \in ExecRows :
           /\ Writes(e, r) /\ r.pc = "preflight" /\ r.list = NoList
           /\ r.submitted = 0 /\ r.visible = 0
    <2>1. "preflight" \in PCs
      BY DEF PCs
    <2>2. [Unstarted EXCEPT !.pc = "preflight"] \in ExecRows
      BY <2>1, UnstartedRow DEF ExecRows
    <2>. QED BY <1>4, <2>2 DEF Unstarted
  <1>6. Rewrites(e) /\ exec'[e] = r
    BY <1>2, <1>5, RowWritten
  <1>7. job' \in [status: {"queued", "leased", "expired", "settled"}, gen: 0..MaxExecs]
        /\ job'.gen = e
    BY <1>1, NumbersNotZero
  <1>8. OtherTypes'
    BY <1>1, <1>2, <1>7, TypesOfTypeOK DEF OtherTypes, apple
  <1>9. ExecOK(e)' /\ CopyOK(e)'
    <2>1. "preflight" \in Quiet
          /\ "preflight" \notin Listed \cup Unlisted \cup {"control", "store", "note", "raise"}
      BY DEF Quiet, Listed, Unlisted
    <2>. QED BY <1>5, <1>6, <2>1, FirstAndLastMark DEF ExecOK, CopyOK, At
  <1>10. ASSUME NEW d \in Execs, d # e PROVE ExecOK(d)' /\ CopyOK(d)'
    <2>1. ExecOK(d) /\ exec'[d] = exec[d]
      BY <1>2, <1>6, <1>10 DEF ExecsInv, Rewrites
    <2>2. /\ exec[d].list # NoList =>
                lib'[exec[d].list] # Nothing /\ exec[d].submitted <= lib'[exec[d].list].held
          /\ At(d, {"note", "raise"}) => exec[d].visible <= lib'[exec[d].list].held
      BY <1>2, <1>3, <1>8, <2>1, CopyKnown
    <2>3. ExecOK(d)'
      BY <2>1, <2>2 DEF ExecOK, At, Exists
    <2>4. CopyOK(d)'
      BY <1>7, <1>10 DEF CopyOK
    <2>. QED BY <2>3, <2>4
  <1>11. RowInv'
    <2>1. UNCHANGED <<row, published, lib, run>>
      BY <1>1 DEF apple
    <2>. QED BY <1>2, <2>1 DEF RowInv, Exists
  <1>12. PermitLocks'
    BY <1>1 DEF PermitLocks
  <1>13. TypeOK'
    BY <1>6, <1>8, TypesOfTypeOK DEF Rewrites
  <1>. QED BY <1>3, <1>9, <1>10, <1>11, <1>12, <1>13 DEF IInv, ExecsInv

LEMMA LeaseExpiresStep ==
    ASSUME IInv, LeaseExpires
    PROVE  IInv'
  <1>1. /\ job.status = "leased" /\ (Trouble \/ Calm)
        /\ job' = [job EXCEPT !.status = "expired"]
        /\ UNCHANGED <<run, published, row, recon, orphans, auth, permit, exec, apple>>
    BY DEF LeaseExpires
  <1>2. TypeOK /\ PermitLocks
    BY DEF IInv
  <1>3. /\ job' \in [status: {"queued", "leased", "expired", "settled"}, gen: 0..MaxExecs]
        /\ job'.gen = job.gen /\ job'.status = "expired"
    <2>1. job \in [status: {"queued", "leased", "expired", "settled"}, gen: 0..MaxExecs]
      BY <1>2 DEF TypeOK
    <2>. QED BY <1>1, <2>1
  <1>4. OtherTypes'
    <2>1. troubles' \in 0..MaxTroubles
      BY <1>1, <1>2, TroublesTyped
    <2>. QED BY <1>1, <1>2, <1>3, <2>1, TypesOfTypeOK DEF OtherTypes, apple
  <1>5. PermitLocks'
    BY <1>1, <1>2, <1>3 DEF PermitLocks, Owns, At
  <1>6. LibGrows /\ LibInv'
    BY <1>1, AppleSame
  <1>. QED BY <1>1, <1>3, <1>4, <1>5, <1>6, OutsideStep

LEMMA CancelStep ==
    ASSUME IInv, Cancel
    PROVE  IInv'
  <1>1. /\ permit = NoExec /\ Trouble /\ run' = "cancelled"
        /\ UNCHANGED <<job, published, row, recon, orphans, auth, permit, exec, apple>>
    BY DEF Cancel, MayCancel
  <1>2. TypeOK
    BY DEF IInv
  <1>3. OtherTypes'
    <2>1. troubles' \in 0..MaxTroubles
      BY <1>1, <1>2, TroublesTyped
    <2>. QED BY <1>1, <1>2, <2>1, TypesOfTypeOK DEF OtherTypes, apple
  <1>4. PermitLocks'
    BY <1>1 DEF PermitLocks
  <1>5. LibGrows /\ LibInv'
    BY <1>1, AppleSame
  <1>. QED BY <1>1, <1>3, <1>4, <1>5, OutsideStep

LEMMA LoseSessionStep ==
    ASSUME IInv, LoseSession
    PROVE  IInv'
  <1>1. Trouble /\ permit' = NoExec /\ UNCHANGED <<database, exec, apple>>
    BY DEF LoseSession
  <1>2. TypeOK
    BY DEF IInv
  <1>3. OtherTypes'
    BY <1>1, <1>2, PermitTyped, SameTypes
  <1>4. PermitLocks'
    BY <1>1 DEF PermitLocks
  <1>5. LibGrows /\ LibInv'
    BY <1>1, AppleSame
  <1>. QED BY <1>1, <1>3, <1>4, <1>5, OutsideStep DEF database

LEMMA ReauthorizeStep ==
    ASSUME IInv, Reauthorize
    PROVE  IInv'
  <1>1. /\ auth.key < MaxKeys /\ auth' = [valid |-> TRUE, key |-> auth.key + 1]
        /\ UNCHANGED <<job, run, published, row, recon, orphans, permit, exec, apple, troubles>>
    BY DEF Reauthorize
  <1>2. TypeOK /\ PermitLocks
    BY DEF IInv
  <1>3. auth' \in [valid: BOOLEAN, key: 0..MaxKeys]
    <2>1. auth \in [valid: BOOLEAN, key: 0..MaxKeys]
      BY <1>2 DEF TypeOK
    <2>2. auth.key + 1 \in 0..MaxKeys
      BY <1>1, <2>1, BoundsAssumption
    <2>. QED BY <1>1, <2>2
  <1>4. OtherTypes'
    BY <1>1, <1>2, <1>3, TypesOfTypeOK DEF OtherTypes, apple
  <1>5. PermitLocks'
    BY <1>1, <1>2 DEF PermitLocks, Owns, At
  <1>6. LibGrows /\ LibInv'
    BY <1>1, AppleSame
  <1>. QED BY <1>1, <1>4, <1>5, <1>6, OutsideStep

LEMMA RecoverStep ==
    ASSUME IInv, Recover
    PROVE  IInv'
  <1>1. /\ job.status = "settled" /\ job' = [job EXCEPT !.status = "queued"]
        /\ UNCHANGED <<run, published, row, recon, orphans, auth, permit, exec, apple, troubles>>
    BY DEF Recover, MayRecover
  <1>2. TypeOK /\ PermitLocks
    BY DEF IInv
  <1>3. /\ job' \in [status: {"queued", "leased", "expired", "settled"}, gen: 0..MaxExecs]
        /\ job'.gen = job.gen
    <2>1. job \in [status: {"queued", "leased", "expired", "settled"}, gen: 0..MaxExecs]
      BY <1>2 DEF TypeOK
    <2>. QED BY <1>1, <2>1
  <1>4. OtherTypes'
    BY <1>1, <1>2, <1>3, TypesOfTypeOK DEF OtherTypes, apple
  <1>5. PermitLocks'
    <2>1. permit = NoExec
      BY <1>1, <1>2 DEF PermitLocks, Owns
    <2>. QED BY <1>1, <2>1 DEF PermitLocks
  <1>6. LibGrows /\ LibInv'
    BY <1>1, AppleSame
  <1>. QED BY <1>1, <1>3, <1>4, <1>5, <1>6, OutsideStep

-----------------------------------------------------------------------------
(* The theorems.                                                           *)

LEMMA Initial == Init => IInv
  <1>1. SUFFICES ASSUME Init PROVE IInv
    OBVIOUS
  <1>2. /\ job = [status |-> "queued", gen |-> 0] /\ run = "publishing" /\ published = FALSE
        /\ row = [list |-> NoList, attempt |-> 0, appended |-> 0, complete |-> FALSE]
        /\ recon = [state |-> "preflight", exec |-> NoExec, appended |-> 0, observed |-> FALSE]
        /\ orphans = {} /\ auth = [valid |-> TRUE, key |-> 0] /\ permit = NoExec
        /\ exec = [e \in Execs |-> Unstarted]
        /\ lib = [p \in Lists |-> Nothing] /\ seen = [p \in Lists |-> Nothing]
        /\ late = {} /\ troubles = MaxTroubles
    BY <1>1 DEF Init
  <1>3. TypeOK
    <2>1. 0 \in Prefixes /\ 0 \in Attempts /\ 0 \in 0..MaxExecs /\ 0 \in 0..MaxKeys
          /\ MaxTroubles \in 0..MaxTroubles /\ NoExec = 0 /\ "preflight" \in ReconStates
      BY PrefixBounds, BoundsAssumption, ReplacementsAssumption
      DEF Attempts, NoExec, ReconStates
    <2>2. exec \in [Execs -> ExecRows]
      BY <1>2, UnstartedRow
    <2>. QED BY <1>2, <2>1, <2>2 DEF TypeOK
  <1>4. LibInv
    BY <1>2 DEF LibInv, Exists
  <1>5. RowInv
    BY <1>2, FirstAndLastMark DEF RowInv
  <1>6. ASSUME NEW e \in Execs PROVE ExecOK(e) /\ CopyOK(e)
    <2>1. exec[e].pc = "over" /\ exec[e].list = NoList /\ exec[e].submitted = 0 /\ exec[e].visible = 0
      BY <1>2 DEF Unstarted
    <2>2. "over" \notin Listed \cup Unlisted \cup {"store", "control", "note", "raise"}
      BY DEF Listed, Unlisted
    <2>. QED BY <1>2, <2>1, <2>2, FirstAndLastMark DEF ExecOK, CopyOK, At
  <1>7. PermitLocks
    BY <1>2 DEF PermitLocks
  <1>. QED BY <1>3, <1>4, <1>5, <1>6, <1>7 DEF IInv, ExecsInv

LEMMA Inductive == IInv /\ [Next]_vars => IInv'
  <1>1. SUFFICES ASSUME IInv, [Next]_vars PROVE IInv'
    OBVIOUS
  <1>2. CASE UNCHANGED vars
    <2>1. UNCHANGED <<database, apple, permit, exec, troubles>>
          /\ UNCHANGED <<row, published, job, run, recon>>
      BY <1>2 DEF vars, database, apple
    <2>2. TypeOK /\ PermitLocks
      BY <1>1 DEF IInv
    <2>3. OtherTypes' /\ LibGrows /\ LibInv'
      BY <1>1, <2>1, <2>2, PermitTyped, SameTypes, AppleSame DEF Calm
    <2>4. PermitLocks'
      BY <2>1, <2>2 DEF PermitLocks, Owns, At
    <2>. QED BY <1>1, <2>1, <2>3, <2>4, OutsideStep
  <1>3. CASE Environment
    <2>1. CASE Take
      BY <1>1, <2>1, TakeStep
    <2>2. CASE LeaseExpires
      BY <1>1, <2>2, LeaseExpiresStep
    <2>3. CASE Cancel
      BY <1>1, <2>3, CancelStep
    <2>4. CASE LoseSession
      BY <1>1, <2>4, LoseSessionStep
    <2>5. CASE Reauthorize
      BY <1>1, <2>5, ReauthorizeStep
    <2>6. CASE Recover
      BY <1>1, <2>6, RecoverStep
    <2>7. CASE LateArrives
      BY <1>1, <2>7, LateArrivesStep
    <2>8. CASE \E p \in Lists : Shows(p) \/ OwnerEdits(p) \/ OwnerDeletes(p)
      BY <1>1, <2>8, ShowsStep, OwnerSteps
    <2>. QED BY <1>3, <2>1, <2>2, <2>3, <2>4, <2>5, <2>6, <2>7, <2>8 DEF Environment
  <1>4. ASSUME NEW e \in Execs, Step(e) PROVE IInv'
    <2>1. CASE Preflight(e) \/ Decide(e) \/ Begin(e) \/ Pend(e)
      BY <1>1, <2>1, PreflightStep, DecideStep, BeginStep, PendStep
    <2>2. CASE Control(e) \/ ControlRefuses(e) \/ Find(e) \/ Store(e)
      BY <1>1, <2>2, ControlStep, ControlRefusesStep, FindStep, StoreStep
    <2>3. CASE AskToWrite(e) \/ Answered(e) \/ Look(e)
      BY <1>1, <2>3, AskToWriteStep, AnsweredStep, LookStep
    <2>4. CASE Announce(e) \/ Note(e) \/ Raise(e) \/ Orphan(e) \/ Replace(e)
      BY <1>1, <2>4, AnnounceStep, NoteStep, RaiseStep, OrphanStep, ReplaceStep
    <2>5. CASE Share(e) \/ Finish(e) \/ Confirm(e) \/ Commit(e) \/ CommitRefused(e)
      BY <1>1, <2>5, ShareStep, FinishStep, ConfirmStep, CommitStep, CommitRefusedStep
    <2>6. CASE Block(e) \/ Await(e) \/ Seal(e) \/ Settle(e) \/ Defer(e) \/ Fail(e) \/ Refused(e)
      BY <1>1, <2>6, BlockStep, AwaitStep, SealStep, SettleStep, DeferStep, FailStep, RefusedStep
    <2>. QED BY <1>4, <2>1, <2>2, <2>3, <2>4, <2>5, <2>6 DEF Step
  <1>5. ASSUME NEW e \in Execs, Disturbance(e) PROVE IInv'
    <2>1. CASE Vanish(e) \/ Pause(e) \/ NoTracksLeft(e) \/ PermitRefused(e) \/ Rejected(e)
      BY <1>1, <2>1, VanishStep, PauseStep, NoTracksLeftStep, PermitRefusedStep, RejectedStep
    <2>2. CASE WriteDenied(e) \/ TimesOut(e) \/ LookFails(e) \/ CallFails(e) \/ ReadDenied(e)
      BY <1>1, <2>2, WriteDeniedStep, TimesOutStep, LookFailsStep, CallFailsStep, ReadDeniedStep
    <2>. QED BY <1>5, <2>1, <2>2 DEF Disturbance
  <1>. QED BY <1>1, <1>2, <1>3, <1>4, <1>5 DEF Next

\* The inductive invariant holds of every behaviour, whether or not Apple had
\* settled when a job was leased again.
THEOREM Invariance == Spec => []IInv
  BY Initial, Inductive, PTL DEF Spec

\* Every variable keeps its type: no step of publishManifest, of a worker that
\* replaces another one, or of Apple leads out of the states the module names.
THEOREM TypeInvariant == Spec => []TypeOK
  <1>1. IInv => TypeOK
    BY DEF IInv
  <1>. QED BY <1>1, Invariance, PTL

\* acquireAppleWritePermit: while a write is permitted, no other execution owns the
\* job, the run is neither cancelled nor published, and the stored attempt is the
\* one the write is for, for every number of executions and failures.
THEOREM PermitExcludes == Spec => []PermitLocks
  <1>1. IInv => PermitLocks
    BY DEF IInv
  <1>. QED BY <1>1, Invariance, PTL

\* advanceSubmittedCount: the stored high-water mark never counts a track that Apple
\* has not applied, though it is raised from an answer, from a late read or from the
\* length an uncertain write would have given.
THEOREM HighWaterApplied == Spec => []SubmittedIsApplied
  <1>1. IInv => SubmittedIsApplied
    BY DEF IInv, RowInv, SubmittedIsApplied
  <1>. QED BY <1>1, Invariance, PTL

\* commitPublicationCompletion: a complete run shows a playlist with every track of
\* the manifest. (That it holds each once rests on Apple being settled at takeover:
\* CompleteIsExact of ExactPublicationProofs.)
THEOREM CompleteIsWhole == Spec => []PublishedHeld
  <1>1. IInv => PublishedHeld
    BY DEF IInv, RowInv, PublishedHeld
  <1>. QED BY <1>1, Invariance, PTL
=============================================================================
