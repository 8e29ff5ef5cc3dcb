--------------------------- MODULE SharedRunProofs ---------------------------
(***************************************************************************)
(* Theorems about SharedRun, for any number of visitors, of executions     *)
(* that capture failures and of identities.  What the rows come to rests   *)
(* on who excludes whom: a capture that has validated its access holds it  *)
(* until its report is filed, so that no deletion of that access and no    *)
(* purge is past its first lock; and who decides on the event holds its    *)
(* lock, so that at most one report is filed and none that the owner has   *)
(* suppressed.                                                             *)
(***************************************************************************)
EXTENDS MCPublishedRun, ApplePublicationProofs, FiniteSetLemmas, TLAPS

-----------------------------------------------------------------------------
(* The inductive invariant *)

Deleting == {"reports", "event", "count", "run", "purge", "commit"}
Swept == {"event", "count", "run", "purge", "commit"}
Validated == {"event", "existing", "write"}
Deciding == {"existing", "write"}

Steps == {"idle", "refused", "join", "joined", "delete", "source", "access", "suppress", "purged"}
         \cup Deleting \cup Validated
Types == SharedRunTypeOK /\ pc \in [Processes -> Steps]

\* A capture holds the access it is about, the row of the event and its lock.
AccessHeld == \A k \in Captors : pc[k] \in Validated =>
    pc[target[k]] \notin Deleting /\ pc[Retention] # "purged"
EventHeld == \A k \in Captors : pc[k] \in Deciding =>
    /\ \A l \in Captors : pc[l] \in Deciding => l = k
    /\ pc[Owner] # "suppress"
    /\ event # NoEvent => unmapped = {}

\* What one deletion has deleted no other one has, nor does the owner.
DropsApart ==
    /\ \A u, v \in unmapped : u = v
    /\ \A u, v \in Visitors : u # v => drop[u] \cap drop[v] = {}
    /\ pc[Owner] = "suppress" => \A v \in Visitors : target[Owner] \notin drop[v]
LockInv == AccessHeld /\ EventHeld /\ DropsApart

\* A capture goes on only where there is something to report.
CaptureInv == \A k \in Captors :
    /\ pc[k] # "idle" => target[k] \in Visitors
    /\ pc[k] \in Validated => access[target[k]] = "live" /\ canonical # "gone"
    /\ pc[k] \in Deciding => ~event.suppressed
    /\ pc[k] = "write" => event.id \notin Filed

\* A deletion has found every report of its access, and removes the event
\* only with a report, with its access or with the run.
DeletionInv == \A v \in Visitors :
    /\ drop[v] \subseteq Filed
    /\ v \in unmapped => event # NoEvent /\ (v \in last \/ event.id \in drop[v] \/ event.of = v)
    /\ v \in last => pc[v] \in Deleting \ {"count"}
    /\ pc[v] \in Swept \/ v \in last => \A i \in Filed : report[i] = v => i \in drop[v]
    /\ v \in last /\ pc[v] = "commit" => canonical = "gone"

OwnerInv ==
    /\ pc[Owner] = "delete" => target[Owner] \in Ids
    /\ pc[Owner] = "suppress" => target[Owner] \in Filed

\* The event names the only report there is.
EventInv ==
    /\ canonical # "gone" => Filed \subseteq {event.id}
    /\ event.id \in Filed => report[event.id] = event.of
    /\ \A i, j \in Filed : i = j
    /\ event.suppressed => Filed = {}

SharingInv ==
    Types /\ LockInv /\ CaptureInv /\ DeletionInv /\ OwnerInv /\ EventInv /\ DeletedNotReported

-----------------------------------------------------------------------------
(* Fresh identities *)

\* Two identities may be in use when one is made.
LEMMA FreshId == ASSUME SharedRunTypeOK, Filed = {} PROVE Min(FreshIds) \in FreshIds
<1>1. IsFiniteSet(Ids) /\ Cardinality(Ids) >= 3 /\ Ids \subseteq Int
  BY SharedRunAssumption
<1> DEFINE Rest == Ids \ {event.id}
<1>2. IsFiniteSet(Rest) /\ Cardinality(Rest) >= 2
  BY <1>1, OneLess
<1> DEFINE own == target[Owner]
<1>3. IsFiniteSet(Rest \ {own}) /\ Cardinality(Rest \ {own}) >= 1
  <2> HIDE DEF Rest, own
  <2>1. Cardinality(Rest \ {own}) >= Cardinality(Rest) - 1 /\ Cardinality(Rest) \in Nat
    BY <1>2, OneLess
  <2>2. IsFiniteSet(Rest \ {own}) /\ Cardinality(Rest \ {own}) \in Nat
    BY <1>2, OneLess
  <2> QED BY <1>2, <2>1, <2>2
<1>4. FreshIds = Rest \ {own}
  BY DEF FreshIds
<1>5. IsFiniteSet(FreshIds) /\ Cardinality(FreshIds) # 0
  <2> HIDE DEF Rest, own
  <2> QED BY <1>3, <1>4
<1>6. FreshIds # {} /\ FreshIds \subseteq Int
  BY <1>1, <1>5, FS_EmptySet DEF FreshIds
<1> QED BY <1>5, <1>6, Extremes

LEMMA NewestIsVisitor == ASSUME Retained # {} PROVE NewestRetained \in Retained
<1>1. Retained \in SUBSET Visitors /\ Visitors \subseteq Int /\ IsFiniteSet(Visitors)
  BY SharedRunAssumption DEF Retained
<1>2. IsFiniteSet(Retained)
  BY <1>1, FS_Subset
<1> QED BY <1>1, <1>2, Extremes DEF NewestRetained

-----------------------------------------------------------------------------
(* Locks: who holds what, and whom a lock that was granted excludes. *)

LEMMA Kinds ==
  /\ \A v \in Visitors : v \in Processes /\ v \notin Captors /\ v # Owner /\ v # Retention /\ v # Nobody
  /\ \A k \in Captors : k \in Processes /\ k \notin Visitors /\ k # Owner /\ k # Retention
  /\ Owner \in Processes /\ Retention \in Processes /\ Owner # Retention /\ Owner \notin Visitors \cup Captors
  /\ Retention \notin Visitors \cup Captors
  /\ Nobody \notin Ids
<1> QED BY SharedRunAssumption DEF Processes, Owner, Retention, Nobody

LEMMA Held ==
  /\ \A k \in Captors : pc[k] \in Validated => <<"access", target[k]>> \in LockedBy(k)
  /\ \A k \in Captors : pc[k] \in Deciding => <<"event lock", 0>> \in LockedBy(k)
  /\ \A k \in Captors : pc[k] \in Deciding /\ event # NoEvent => <<"event", 0>> \in LockedBy(k)
  /\ \A v \in Visitors : pc[v] \in Deleting => <<"access", v>> \in LockedBy(v)
  /\ \A v \in Visitors, i \in Ids : i \in drop[v] => <<"report", i>> \in LockedBy(v)
  /\ \A v \in Visitors : v \in unmapped => <<"event", 0>> \in LockedBy(v)
  /\ pc[Owner] = "suppress" =>
       <<"event lock", 0>> \in LockedBy(Owner) /\ <<"report", target[Owner]>> \in LockedBy(Owner)
  /\ pc[Retention] = "purged" => \A v \in Visitors : <<"access", v>> \in LockedBy(Retention)
<1> USE Kinds
<1>1. ASSUME NEW k \in Captors
      PROVE  /\ pc[k] \in Validated => <<"access", target[k]>> \in LockedBy(k)
             /\ pc[k] \in Deciding => <<"event lock", 0>> \in LockedBy(k)
             /\ pc[k] \in Deciding /\ event # NoEvent => <<"event", 0>> \in LockedBy(k)
  BY DEF LockedBy, Validated, Deciding, AccessRow, EventLock, RowOfEvent, EventRow
<1>2. ASSUME NEW v \in Visitors
      PROVE  /\ pc[v] \in Deleting => <<"access", v>> \in LockedBy(v)
             /\ \A i \in Ids : i \in drop[v] => <<"report", i>> \in LockedBy(v)
             /\ v \in unmapped => <<"event", 0>> \in LockedBy(v)
  BY DEF LockedBy, Deleting, AccessRow, EventRow, ReportRows
<1>3. pc[Owner] = "suppress" =>
       <<"event lock", 0>> \in LockedBy(Owner) /\ <<"report", target[Owner]>> \in LockedBy(Owner)
  BY DEF LockedBy, EventLock, ReportRows
<1>4. pc[Retention] = "purged" => \A v \in Visitors : <<"access", v>> \in LockedBy(Retention)
  BY DEF LockedBy, AccessRow
<1> QED BY <1>1, <1>2, <1>3, <1>4

LEMMA Excludes ==
  ASSUME NEW p \in Processes, NEW q \in Processes, p # q, Granted(p), NEW x \in Wants(p)
  PROVE  x \notin LockedBy(q)
<1> QED BY DEF Granted

\* An access that is granted is in no deletion, capture or purge.
LEMMA AccessGranted ==
  ASSUME NEW p \in Processes, NEW v \in Visitors, Granted(p), <<"access", v>> \in Wants(p)
  PROVE  /\ p # v => pc[v] \notin Deleting
         /\ \A k \in Captors : k # p /\ target[k] = v => pc[k] \notin Validated
         /\ p # Retention => pc[Retention] # "purged"
<1> QED BY Kinds, Held, Excludes

LEMMA EventLockGranted ==
  ASSUME NEW p \in Processes, Granted(p), <<"event lock", 0>> \in Wants(p)
  PROVE  /\ \A k \in Captors : k # p => pc[k] \notin Deciding
         /\ p # Owner => pc[Owner] # "suppress"
<1> QED BY Kinds, Held, Excludes

LEMMA EventGranted ==
  ASSUME NEW p \in Processes, Granted(p), <<"event", 0>> \in Wants(p), event # NoEvent
  PROVE  /\ \A k \in Captors : k # p => pc[k] \notin Deciding
         /\ \A v \in Visitors : v # p => v \notin unmapped
<1> QED BY Kinds, Held, Excludes

LEMMA ReportGranted ==
  ASSUME NEW p \in Processes, NEW i \in Ids, Granted(p), <<"report", i>> \in Wants(p)
  PROVE  /\ \A v \in Visitors : v # p => i \notin drop[v]
         /\ p # Owner /\ pc[Owner] = "suppress" => target[Owner] # i
<1> QED BY Kinds, Held, Excludes

\* What the statements that matter wait for.
LEMMA Wanted ==
  /\ \A k \in Captors : pc[k] = "access" => <<"access", target[k]>> \in Wants(k)
  /\ \A k \in Captors : pc[k] = "event" => <<"event lock", 0>> \in Wants(k)
  /\ \A k \in Captors : pc[k] = "event" /\ event # NoEvent => <<"event", 0>> \in Wants(k)
  /\ \A v \in Visitors : pc[v] = "delete" => <<"access", v>> \in Wants(v)
  /\ \A v \in Visitors : pc[v] = "reports" => \A i \in ReportsOf(v) : <<"report", i>> \in Wants(v)
  /\ \A v \in Visitors : pc[v] = "event" /\ EventOf(v) => <<"event", 0>> \in Wants(v)
  /\ \A v \in Visitors : pc[v] = "purge" => \A u \in Visitors : <<"access", u>> \in Wants(v)
  /\ pc[Owner] = "delete" =>
       /\ <<"event lock", 0>> \in Wants(Owner)
       /\ target[Owner] \in Filed => <<"report", target[Owner]>> \in Wants(Owner)
  /\ pc[Owner] = "suppress" /\ event # NoEvent => <<"event", 0>> \in Wants(Owner)
  /\ pc[Retention] = "purge" => \A v \in Visitors : <<"access", v>> \in Wants(Retention)
  /\ pc[Retention] = "purged" =>
       /\ \A i \in Filed : <<"report", i>> \in Wants(Retention)
       /\ event # NoEvent => <<"event", 0>> \in Wants(Retention)
<1> USE Kinds
<1>1. ASSUME NEW k \in Captors
      PROVE  /\ pc[k] = "access" => <<"access", target[k]>> \in Wants(k)
             /\ pc[k] = "event" => <<"event lock", 0>> \in Wants(k)
             /\ pc[k] = "event" /\ event # NoEvent => <<"event", 0>> \in Wants(k)
  BY DEF Wants, AccessRow, EventLock, RowOfEvent, EventRow
<1>2. ASSUME NEW v \in Visitors
      PROVE  /\ pc[v] = "delete" => <<"access", v>> \in Wants(v)
             /\ pc[v] = "reports" => \A i \in ReportsOf(v) : <<"report", i>> \in Wants(v)
             /\ pc[v] = "event" /\ EventOf(v) => <<"event", 0>> \in Wants(v)
             /\ pc[v] = "purge" => \A u \in Visitors : <<"access", u>> \in Wants(v)
  BY DEF Wants, AccessRow, ReportRows, EventRow
<1>3. /\ pc[Owner] = "delete" =>
           /\ <<"event lock", 0>> \in Wants(Owner)
           /\ target[Owner] \in Filed => <<"report", target[Owner]>> \in Wants(Owner)
      /\ pc[Owner] = "suppress" /\ event # NoEvent => <<"event", 0>> \in Wants(Owner)
  BY DEF Wants, EventLock, RowOfEvent, EventRow, ReportRows
<1>4. /\ pc[Retention] = "purge" => \A v \in Visitors : <<"access", v>> \in Wants(Retention)
      /\ pc[Retention] = "purged" =>
           /\ \A i \in Filed : <<"report", i>> \in Wants(Retention)
           /\ event # NoEvent => <<"event", 0>> \in Wants(Retention)
  BY DEF Wants, AccessRow, RowOfEvent, EventRow, ReportRows
<1> QED BY <1>1, <1>2, <1>3, <1>4

-----------------------------------------------------------------------------
(* Steps that write no row *)

\* What a transaction must have found before it goes on to a statement.
MayGoOn(p, s) ==
    /\ p \in Captors =>
         /\ s # "idle" => target[p] \in Visitors
         /\ s \in Validated =>
              /\ access[target[p]] = "live" /\ canonical # "gone"
              /\ pc[target[p]] \notin Deleting /\ pc[Retention] # "purged"
         /\ s \in Deciding =>
              /\ \A l \in Captors : l # p => pc[l] \notin Deciding
              /\ pc[Owner] # "suppress" /\ (event # NoEvent => unmapped = {}) /\ ~event.suppressed
         /\ s = "write" => event.id \notin Filed
    /\ p \in Visitors =>
         /\ s \in Deleting => \A k \in Captors : target[k] = p => pc[k] \notin Validated
         /\ p \in last => s \in Deleting \ {"count"}
         /\ s \in Swept => \A i \in Filed : report[i] = p => i \in drop[p]
         /\ p \in last /\ s = "commit" => canonical = "gone"
    /\ p = Owner =>
         /\ s = "delete" => target[Owner] \in Ids
         /\ s = "suppress" =>
              /\ target[Owner] \in Filed /\ \A v \in Visitors : target[Owner] \notin drop[v]
              /\ \A k \in Captors : pc[k] \notin Deciding
    /\ p = Retention /\ s = "purged" => \A k \in Captors : pc[k] \notin Validated

LEMMA Moves ==
  ASSUME SharingInv, NEW p \in Processes, NEW s \in Steps, Continue(p, s), UNCHANGED <<rows, open>>, MayGoOn(p, s)
  PROVE  SharingInv'
<1> USE Kinds
<1>1. /\ pc \in [Processes -> Steps] /\ pc' = [pc EXCEPT ![p] = s]
      /\ UNCHANGED <<canonical, access, report, event, due, target, drop, unmapped, last>>
  BY DEF SharingInv, Types, Continue, rows, open
<1>2. pc'[p] = s /\ \A q \in Processes : q # p => pc'[q] = pc[q]
  BY <1>1
<1>3. Types'
  BY <1>1 DEF SharingInv, Types, SharedRunTypeOK
<1>4. Filed' = Filed
  BY <1>1 DEF Filed
<1>5. CaptureInv'
  <2> SUFFICES ASSUME NEW k \in Captors
               PROVE  /\ pc'[k] # "idle" => target[k] \in Visitors
                      /\ pc'[k] \in Validated => access[target[k]] = "live" /\ canonical # "gone"
                      /\ pc'[k] \in Deciding => ~event.suppressed
                      /\ pc'[k] = "write" => event.id \notin Filed
    BY <1>1, <1>4 DEF CaptureInv
  <2>1. CASE k = p
    BY <1>2, <2>1 DEF MayGoOn
  <2>2. CASE k # p
    BY <1>2, <2>2 DEF SharingInv, CaptureInv
  <2> QED BY <2>1, <2>2
<1>6. AccessHeld'
  <2> SUFFICES ASSUME NEW k \in Captors, pc'[k] \in Validated
               PROVE  pc'[target[k]] \notin Deleting /\ pc'[Retention] # "purged"
    BY <1>1 DEF AccessHeld
  <2>1. target[k] \in Visitors
    BY <1>1, <1>5 DEF CaptureInv, Validated
  <2>2. CASE k = p
    BY <1>2, <2>1, <2>2 DEF MayGoOn
  <2>3. CASE k # p
    <3>1. pc[k] \in Validated /\ pc[target[k]] \notin Deleting /\ pc[Retention] # "purged"
      BY <1>2, <2>3 DEF SharingInv, LockInv, AccessHeld
    <3> QED BY <1>2, <2>1, <3>1 DEF MayGoOn
  <2> QED BY <2>2, <2>3
<1>7. EventHeld'
  <2> SUFFICES ASSUME NEW k \in Captors, pc'[k] \in Deciding
               PROVE  /\ \A l \in Captors : pc'[l] \in Deciding => l = k
                      /\ pc'[Owner] # "suppress"
                      /\ event # NoEvent => unmapped = {}
    BY <1>1 DEF EventHeld
  <2>1. CASE k = p
    BY <1>2, <2>1 DEF MayGoOn
  <2>2. CASE k # p
    <3>1. /\ pc[k] \in Deciding /\ \A l \in Captors : pc[l] \in Deciding => l = k
          /\ pc[Owner] # "suppress" /\ (event # NoEvent => unmapped = {})
      BY <1>2, <2>2 DEF SharingInv, LockInv, EventHeld
    <3> QED BY <1>2, <2>2, <3>1 DEF MayGoOn
  <2> QED BY <2>1, <2>2
<1>8. DropsApart'
  BY <1>1, <1>2 DEF SharingInv, LockInv, DropsApart, MayGoOn
<1>9. DeletionInv'
  <2> SUFFICES ASSUME NEW v \in Visitors
               PROVE  /\ drop[v] \subseteq Filed
                      /\ v \in unmapped => event # NoEvent /\ (v \in last \/ event.id \in drop[v] \/ event.of = v)
                      /\ v \in last => pc'[v] \in Deleting \ {"count"}
                      /\ pc'[v] \in Swept \/ v \in last => \A i \in Filed : report[i] = v => i \in drop[v]
                      /\ v \in last /\ pc'[v] = "commit" => canonical = "gone"
    BY <1>1, <1>4 DEF DeletionInv
  <2>1. CASE v # p
    BY <1>2, <2>1 DEF SharingInv, DeletionInv
  <2>2. CASE v = p
    BY <1>2, <2>2 DEF SharingInv, DeletionInv, MayGoOn
  <2> QED BY <2>1, <2>2
<1>10. OwnerInv'
  BY <1>1, <1>2, <1>4 DEF SharingInv, OwnerInv, MayGoOn
<1>11. EventInv' /\ DeletedNotReported'
  BY <1>1, <1>4 DEF SharingInv, EventInv, DeletedNotReported
<1> QED BY <1>3, <1>5, <1>6, <1>7, <1>8, <1>9, <1>10, <1>11 DEF SharingInv, LockInv

\* Whatever a transaction has written, its end leaves no lock behind.
LEMMA Ended ==
  ASSUME SharingInv, NEW p \in Processes, NEW s \in {"idle", "refused"}, p \in Captors => s = "idle", End(p, s)
  PROVE  /\ pc' \in [Processes -> Steps] /\ pc'[p] = s /\ drop'[p] = {} /\ target'[p] = Nobody
         /\ \A q \in Processes : q # p => pc'[q] = pc[q] /\ drop'[q] = drop[q] /\ target'[q] = target[q]
         /\ unmapped' = unmapped \ {p} /\ last' = last \ {p}
         /\ target' \in [Processes -> Visitors \cup Ids \cup {Nobody}] /\ drop' \in [Processes -> SUBSET Ids]
         /\ unmapped' \subseteq Visitors /\ last' \subseteq Visitors
         /\ \A k \in Captors : pc'[k] # "idle" => k # p /\ pc[k] # "idle" /\ target'[k] \in Visitors
         /\ AccessHeld' /\ DropsApart'
<1> USE Kinds
<1>1. /\ pc \in [Processes -> Steps] /\ pc' = [pc EXCEPT ![p] = s]
      /\ target' = [target EXCEPT ![p] = Nobody] /\ drop' = [drop EXCEPT ![p] = {}]
      /\ unmapped' = unmapped \ {p} /\ last' = last \ {p} /\ SharedRunTypeOK
  BY DEF SharingInv, Types, End, Continue
<1>2. /\ pc'[p] = s /\ drop'[p] = {} /\ target'[p] = Nobody
      /\ \A q \in Processes : q # p => pc'[q] = pc[q] /\ drop'[q] = drop[q] /\ target'[q] = target[q]
  BY <1>1 DEF SharedRunTypeOK
<1>3. s \in Steps
  BY DEF Steps
<1>4. pc' \in [Processes -> Steps]
  BY <1>1, <1>3
<1>5. target' \in [Processes -> Visitors \cup Ids \cup {Nobody}]
  BY <1>1 DEF SharedRunTypeOK
<1>6. drop' \in [Processes -> SUBSET Ids] /\ unmapped' \subseteq Visitors /\ last' \subseteq Visitors
  BY <1>1 DEF SharedRunTypeOK
<1>7. \A k \in Captors : pc'[k] # "idle" => k # p /\ pc[k] # "idle" /\ target'[k] \in Visitors
  BY <1>2 DEF SharingInv, CaptureInv
<1>8. AccessHeld'
  <2> SUFFICES ASSUME NEW k \in Captors, pc'[k] \in Validated
               PROVE  pc'[target'[k]] \notin Deleting /\ pc'[Retention] # "purged"
    BY DEF AccessHeld
  <2>1. k # p /\ pc[k] \in Validated /\ target'[k] = target[k]
    BY <1>2 DEF Validated
  <2>2. pc[target[k]] \notin Deleting /\ pc[Retention] # "purged" /\ target[k] \in Visitors
    BY <2>1 DEF SharingInv, LockInv, AccessHeld, CaptureInv, Validated
  <2> QED BY <1>2, <2>1, <2>2 DEF Deleting
<1>9. DropsApart'
  BY <1>1, <1>2 DEF SharingInv, LockInv, DropsApart
<1> QED BY <1>1, <1>2, <1>4, <1>5, <1>6, <1>7, <1>8, <1>9

\* A transaction that ends without having written leaves nothing behind.
LEMMA EndsUnwritten ==
  ASSUME SharingInv, NEW p \in Processes, NEW s \in {"idle", "refused"}, p \in Captors => s = "idle",
         End(p, s), UNCHANGED rows
  PROVE  SharingInv'
<1> USE Kinds
<1>1. UNCHANGED <<canonical, access, report, event, due>> /\ Filed' = Filed
  BY DEF rows, Filed
<1>2. /\ pc'[p] = s /\ drop'[p] = {} /\ target'[p] = Nobody /\ unmapped' = unmapped \ {p} /\ last' = last \ {p}
      /\ \A q \in Processes : q # p => pc'[q] = pc[q] /\ drop'[q] = drop[q] /\ target'[q] = target[q]
  BY Ended
<1>3. Types'
  BY <1>1, Ended DEF SharingInv, Types, SharedRunTypeOK
<1>4. CaptureInv'
  <2> SUFFICES ASSUME NEW k \in Captors
               PROVE  /\ pc'[k] # "idle" => target'[k] \in Visitors
                      /\ pc'[k] \in Validated => access[target'[k]] = "live" /\ canonical # "gone"
                      /\ pc'[k] \in Deciding => ~event.suppressed
                      /\ pc'[k] = "write" => event.id \notin Filed
    BY <1>1 DEF CaptureInv
  <2>1. CASE k = p
    BY <1>2, <2>1 DEF Validated, Deciding
  <2>2. CASE k # p
    BY <1>2, <2>2 DEF SharingInv, CaptureInv
  <2> QED BY <2>1, <2>2
<1>5. LockInv'
  <2>1. EventHeld'
    BY <1>1, <1>2 DEF SharingInv, LockInv, EventHeld, Deciding
  <2> QED BY <2>1, Ended DEF LockInv
<1>6. DeletionInv'
  <2> SUFFICES ASSUME NEW v \in Visitors
               PROVE  /\ drop'[v] \subseteq Filed
                      /\ v \in unmapped' => event # NoEvent /\ (v \in last' \/ event.id \in drop'[v] \/ event.of = v)
                      /\ v \in last' => pc'[v] \in Deleting \ {"count"}
                      /\ pc'[v] \in Swept \/ v \in last' => \A i \in Filed : report[i] = v => i \in drop'[v]
                      /\ v \in last' /\ pc'[v] = "commit" => canonical = "gone"
    BY <1>1 DEF DeletionInv
  <2>1. CASE v # p
    BY <1>2, <2>1 DEF SharingInv, DeletionInv
  <2>2. CASE v = p
    BY <1>2, <2>2 DEF Swept
  <2> QED BY <2>1, <2>2
<1>7. OwnerInv'
  BY <1>1, <1>2 DEF SharingInv, OwnerInv
<1>8. EventInv' /\ DeletedNotReported'
  BY <1>1 DEF SharingInv, EventInv, DeletedNotReported
<1> QED BY <1>3, <1>4, <1>5, <1>6, <1>7, <1>8 DEF SharingInv

LEMMA NotLast ==
  ASSUME SharingInv, NEW v \in Visitors, pc[v] \notin Deleting
  PROVE  v \notin last
<1> QED BY DEF SharingInv, DeletionInv

LEMMA FindKeeps == ASSUME SharingInv, NEW v \in Visitors, FindReusable(v) PROVE SharingInv'
<1>1. v \notin last
  BY NotLast DEF FindReusable, Deleting
<1>2. MayGoOn(v, "join")
  BY <1>1, Kinds DEF MayGoOn, Deleting, Swept
<1> QED BY <1>2, Moves, Kinds DEF FindReusable, Steps

LEMMA InsertKeeps == ASSUME SharingInv, NEW v \in Visitors, InsertAccess(v) PROVE SharingInv'
<1> DEFINE s == IF canonical = "gone" THEN "idle" ELSE "joined"
<1>1. v \notin last
  BY NotLast DEF InsertAccess, Reaches, Deleting
<1>2. MayGoOn(v, s) /\ s \in Steps
  BY <1>1, Kinds DEF MayGoOn, Deleting, Swept, Steps
<1>3. Continue(v, s) /\ UNCHANGED <<rows, open>>
  BY DEF InsertAccess
<1> HIDE DEF s
<1> QED BY <1>2, <1>3, Moves, Kinds

LEMMA RequestKeeps == ASSUME SharingInv, NEW v \in Visitors, RequestDeletion(v) PROVE SharingInv'
<1>1. v \notin last
  BY NotLast DEF RequestDeletion, Deleting
<1>2. MayGoOn(v, "delete")
  BY <1>1, Kinds DEF MayGoOn, Deleting, Swept
<1> QED BY <1>2, Moves, Kinds DEF RequestDeletion, Steps

\* No capture that has validated this access is under way.
LEMMA LockOwnKeeps == ASSUME SharingInv, NEW v \in Visitors, LockOwnAccess(v) PROVE SharingInv'
<1> DEFINE s == IF access[v] = "live" THEN "reports" ELSE "idle"
<1>1. pc[v] = "delete" /\ Granted(v) /\ Continue(v, s) /\ UNCHANGED <<rows, open>>
  BY DEF LockOwnAccess, Reaches
<1>2. v \notin last
  BY <1>1, NotLast DEF Deleting
<1>3. \A k \in Captors : target[k] = v => pc[k] \notin Validated
  BY <1>1, Wanted, AccessGranted, Kinds
<1>4. MayGoOn(v, s) /\ s \in Steps
  BY <1>2, <1>3, Kinds DEF MayGoOn, Deleting, Swept, Steps
<1> HIDE DEF s
<1> QED BY <1>1, <1>4, Moves, Kinds

LEMMA LockRunKeeps == ASSUME SharingInv, NEW v \in Visitors, LockRun(v) PROVE SharingInv'
<1> DEFINE s == IF canonical = "gone" THEN "commit" ELSE "purge"
<1>1. pc[v] = "run" /\ Continue(v, s) /\ UNCHANGED <<rows, open>>
  BY DEF LockRun, Reaches
<1>2. \A k \in Captors : target[k] = v => pc[k] \notin Validated
  BY <1>1 DEF SharingInv, LockInv, AccessHeld, Deleting
<1>3. \A i \in Filed : report[i] = v => i \in drop[v]
  BY <1>1 DEF SharingInv, DeletionInv, Swept
<1>4. MayGoOn(v, s) /\ s \in Steps
  BY <1>2, <1>3, Kinds DEF MayGoOn, Deleting, Swept, Steps
<1> HIDE DEF s
<1> QED BY <1>1, <1>4, Moves, Kinds

LEMMA LockSourceKeeps == ASSUME SharingInv, NEW k \in Captors, LockSource(k) PROVE SharingInv'
<1>1. pc[k] = "source" /\ Continue(k, "access") /\ UNCHANGED <<rows, open>>
  BY DEF LockSource, Reaches
<1>2. target[k] \in Visitors
  BY <1>1 DEF SharingInv, CaptureInv
<1>3. MayGoOn(k, "access")
  BY <1>2, Kinds DEF MayGoOn, Validated, Deciding
<1> QED BY <1>1, <1>3, Moves, Kinds DEF Steps

\* The access is read again under its lock.
LEMMA LockSourceAccessKeeps == ASSUME SharingInv, NEW k \in Captors, LockSourceAccess(k) PROVE SharingInv'
<1>1. pc[k] = "access" /\ Granted(k) /\ UNCHANGED rows
  BY DEF LockSourceAccess, Reaches
<1>2. target[k] \in Visitors
  BY <1>1 DEF SharingInv, CaptureInv
<1>3. CASE SourceRetained(k)
  <2>1. pc[target[k]] \notin Deleting /\ pc[Retention] # "purged"
    BY <1>1, <1>2, Wanted, AccessGranted, Kinds
  <2>2. MayGoOn(k, "event")
    BY <1>2, <1>3, <2>1, Kinds DEF MayGoOn, Validated, Deciding, SourceRetained
  <2>3. Continue(k, "event") /\ UNCHANGED <<rows, open>>
    BY <1>1, <1>3 DEF LockSourceAccess
  <2> QED BY <2>2, <2>3, Moves, Kinds DEF Steps, Validated
<1>4. CASE ~SourceRetained(k)
  BY <1>1, <1>4, EndsUnwritten, Kinds DEF LockSourceAccess, Close
<1> QED BY <1>3, <1>4

\* What a capture that has validated its access may rely on.
LEMMA Validates ==
  ASSUME SharingInv, NEW k \in Captors, pc[k] \in Validated
  PROVE  /\ target[k] \in Visitors /\ access[target[k]] = "live" /\ canonical # "gone"
         /\ pc[target[k]] \notin Deleting /\ pc[Retention] # "purged"
<1> QED BY DEF SharingInv, CaptureInv, LockInv, AccessHeld, Validated

LEMMA ReadEventKeeps == ASSUME SharingInv, NEW k \in Captors, ReadEvent(k) PROVE SharingInv'
<1>1. pc[k] = "event" /\ Granted(k) /\ UNCHANGED rows
  BY DEF ReadEvent, Reaches
<1>2. CASE event.suppressed
  BY <1>1, <1>2, EndsUnwritten, Kinds DEF ReadEvent, Close
<1>3. CASE ~event.suppressed
  <2> DEFINE s == IF event # NoEvent THEN "existing" ELSE "write"
  <2>1. Continue(k, s) /\ UNCHANGED <<rows, open>>
    BY <1>1, <1>3 DEF ReadEvent
  <2>2. (\A l \in Captors : l # k => pc[l] \notin Deciding) /\ pc[Owner] # "suppress"
    BY <1>1, Wanted, EventLockGranted, Kinds
  <2>3. event # NoEvent => unmapped = {}
    <3>1. ASSUME event # NoEvent PROVE \A v \in Visitors : v \notin unmapped
      BY <1>1, <3>1, Wanted, EventGranted, Kinds
    <3> QED BY <3>1 DEF SharingInv, Types, SharedRunTypeOK
  <2>4. s = "write" => event.id \notin Filed
    BY Kinds DEF NoEvent, Filed
  <2>5. MayGoOn(k, s) /\ s \in Steps
    BY <1>1, <1>3, <2>2, <2>3, <2>4, Validates, Kinds DEF MayGoOn, Validated, Deciding, Steps
  <2> HIDE DEF s
  <2> QED BY <2>1, <2>5, Moves, Kinds
<1> QED BY <1>2, <1>3

LEMMA ReadExistingKeeps == ASSUME SharingInv, NEW k \in Captors, ReadExisting(k) PROVE SharingInv'
<1>1. pc[k] = "existing" /\ UNCHANGED rows
  BY DEF ReadExisting, Reaches
<1>2. CASE event.id \in Filed
  BY <1>1, <1>2, EndsUnwritten, Kinds DEF ReadExisting, Close
<1>3. CASE event.id \notin Filed
  <2>1. Continue(k, "write") /\ UNCHANGED <<rows, open>>
    BY <1>1, <1>3 DEF ReadExisting
  <2>2. /\ \A l \in Captors : l # k => pc[l] \notin Deciding
        /\ pc[Owner] # "suppress" /\ (event # NoEvent => unmapped = {}) /\ ~event.suppressed
    BY <1>1 DEF SharingInv, LockInv, EventHeld, CaptureInv, Deciding
  <2>3. MayGoOn(k, "write")
    BY <1>1, <1>3, <2>2, Validates, Kinds DEF MayGoOn, Validated
  <2> QED BY <2>1, <2>3, Moves, Kinds DEF Steps, Validated
<1> QED BY <1>2, <1>3

LEMMA LockReportKeeps == ASSUME SharingInv, LockReport PROVE SharingInv'
<1>1. pc[Owner] = "delete" /\ Granted(Owner) /\ UNCHANGED rows
  BY DEF LockReport, Reaches
<1>2. CASE target[Owner] \in Filed
  <2>1. Continue(Owner, "suppress") /\ UNCHANGED <<rows, open>>
    BY <1>1, <1>2 DEF LockReport
  <2>2. \A k \in Captors : pc[k] \notin Deciding
    BY <1>1, Wanted, EventLockGranted, Kinds
  <2>3. \A v \in Visitors : target[Owner] \notin drop[v]
    <3>1. target[Owner] \in Ids /\ <<"report", target[Owner]>> \in Wants(Owner)
      BY <1>1, <1>2, Wanted DEF Filed
    <3> QED BY <1>1, <3>1, ReportGranted, Kinds
  <2>4. MayGoOn(Owner, "suppress")
    BY <1>2, <2>2, <2>3, Kinds DEF MayGoOn
  <2> QED BY <2>1, <2>4, Moves, Kinds DEF Steps
<1>3. CASE target[Owner] \notin Filed
  BY <1>1, <1>3, EndsUnwritten, Kinds DEF LockReport, Close
<1> QED BY <1>2, <1>3

LEMMA LockForPurgeKeeps == ASSUME SharingInv, LockForPurge PROVE SharingInv'
<1>1. MayGoOn(Retention, "purge")
  BY Kinds DEF MayGoOn
<1> QED BY <1>1, Moves, Kinds DEF LockForPurge, Steps, Deleting

LEMMA DeleteRunKeeps == ASSUME SharingInv, DeleteRun PROVE SharingInv'
<1>1. pc[Retention] = "purge" /\ Granted(Retention) /\ Continue(Retention, "purged") /\ UNCHANGED <<rows, open>>
  BY DEF DeleteRun, Reaches
<1>2. ASSUME NEW k \in Captors, pc[k] \in Validated PROVE FALSE
  <2>1. target[k] \in Visitors
    BY <1>2, Validates
  <2> QED BY <1>1, <1>2, <2>1, Wanted, AccessGranted, Kinds
<1>3. MayGoOn(Retention, "purged")
  BY <1>2, Kinds DEF MayGoOn
<1> QED BY <1>1, <1>3, Moves, Kinds DEF Steps

-----------------------------------------------------------------------------
(* Steps that record what a transaction has done or is about *)

\* Captures do not notice a deletion that goes on.
LEMMA DeletionUnnoticed ==
  ASSUME SharingInv, NEW v \in Visitors, pc[v] \in Deleting, NEW s \in Deleting, Continue(v, s), UNCHANGED <<rows, target>>
  PROVE  /\ pc' \in [Processes -> Steps] /\ pc'[v] = s /\ \A q \in Processes : q # v => pc'[q] = pc[q]
         /\ Filed' = Filed /\ CaptureInv' /\ AccessHeld' /\ OwnerInv' /\ EventInv' /\ DeletedNotReported'
<1> USE Kinds
<1>1. /\ pc \in [Processes -> Steps] /\ pc' = [pc EXCEPT ![v] = s]
      /\ UNCHANGED <<canonical, access, report, event, due, target>> /\ s \in Steps
  BY DEF SharingInv, Types, Continue, rows, Steps
<1>2. pc' \in [Processes -> Steps] /\ pc'[v] = s /\ \A q \in Processes : q # v => pc'[q] = pc[q]
  BY <1>1
<1>3. Filed' = Filed
  BY <1>1 DEF Filed
<1>4. CaptureInv'
  BY <1>1, <1>2, <1>3 DEF SharingInv, CaptureInv
<1>5. AccessHeld'
  <2> SUFFICES ASSUME NEW k \in Captors, pc[k] \in Validated
               PROVE  pc'[target[k]] \notin Deleting /\ pc'[Retention] # "purged"
    BY <1>1, <1>2 DEF AccessHeld
  <2>1. target[k] \in Visitors /\ pc[target[k]] \notin Deleting /\ pc[Retention] # "purged"
    BY Validates
  <2> QED BY <1>2, <2>1
<1>6. OwnerInv'
  BY <1>1, <1>2, <1>3 DEF SharingInv, OwnerInv
<1>7. EventInv' /\ DeletedNotReported'
  BY <1>1, <1>3 DEF SharingInv, EventInv, DeletedNotReported
<1> QED BY <1>2, <1>3, <1>4, <1>5, <1>6, <1>7

LEMMA DeleteReportsKeeps == ASSUME SharingInv, NEW v \in Visitors, DeleteReports(v) PROVE SharingInv'
<1> USE Kinds
<1>1. /\ pc[v] = "reports" /\ Granted(v) /\ Continue(v, "event") /\ UNCHANGED <<rows, target, unmapped, last>>
      /\ drop' = [drop EXCEPT ![v] = @ \cup ReportsOf(v)]
      /\ SharedRunTypeOK
  BY DEF DeleteReports, Reaches, SharingInv, Types
<1>2. /\ UNCHANGED <<canonical, access, report, event, due, target, unmapped, last>>
      /\ drop'[v] = drop[v] \cup ReportsOf(v)
      /\ \A u \in Visitors : u # v => drop'[u] = drop[u]
  BY <1>1 DEF rows, SharedRunTypeOK
<1>3. ReportsOf(v) \subseteq Filed /\ Filed \subseteq Ids
  BY DEF ReportsOf, Filed
<1>4. /\ pc' \in [Processes -> Steps] /\ pc'[v] = "event" /\ \A q \in Processes : q # v => pc'[q] = pc[q]
      /\ Filed' = Filed /\ CaptureInv' /\ AccessHeld' /\ OwnerInv' /\ EventInv' /\ DeletedNotReported'
  BY <1>1, DeletionUnnoticed DEF Deleting
<1>5. Types'
  <2>1. drop' \in [Processes -> SUBSET Ids]
    BY <1>1, <1>3 DEF SharedRunTypeOK
  <2> QED BY <1>1, <1>2, <1>4, <2>1 DEF Types, SharedRunTypeOK
<1>6. EventHeld'
  BY <1>2, <1>4 DEF SharingInv, LockInv, EventHeld
<1>7. DropsApart'
  <2>1. ASSUME NEW i \in ReportsOf(v)
        PROVE  (\A u \in Visitors : u # v => i \notin drop[u]) /\ (pc[Owner] = "suppress" => target[Owner] # i)
    <3>1. i \in Ids /\ <<"report", i>> \in Wants(v)
      BY <1>1, <1>3, Wanted
    <3> QED BY <1>1, <3>1, ReportGranted
  <2>2. ASSUME NEW u \in Visitors, NEW w \in Visitors, u # w PROVE drop'[u] \cap drop'[w] = {}
    <3>1. drop[u] \cap drop[w] = {}
      BY <2>2 DEF SharingInv, LockInv, DropsApart
    <3>2. CASE u = v
      BY <1>2, <2>1, <2>2, <3>1, <3>2
    <3>3. CASE w = v
      BY <1>2, <2>1, <2>2, <3>1, <3>3
    <3>4. CASE u # v /\ w # v
      BY <1>2, <3>1, <3>4
    <3> QED BY <3>2, <3>3, <3>4
  <2>3. ASSUME pc[Owner] = "suppress", NEW u \in Visitors PROVE target[Owner] \notin drop'[u]
    BY <1>2, <2>1, <2>3 DEF SharingInv, LockInv, DropsApart
  <2>4. \A u, w \in unmapped : u = w
    BY DEF SharingInv, LockInv, DropsApart
  <2> QED BY <1>2, <1>4, <2>2, <2>3, <2>4 DEF DropsApart
<1>8. DeletionInv'
  <2> SUFFICES ASSUME NEW u \in Visitors
               PROVE  /\ drop'[u] \subseteq Filed
                      /\ u \in unmapped => event # NoEvent /\ (u \in last \/ event.id \in drop'[u] \/ event.of = u)
                      /\ u \in last => pc'[u] \in Deleting \ {"count"}
                      /\ pc'[u] \in Swept \/ u \in last => \A i \in Filed : report[i] = u => i \in drop'[u]
                      /\ u \in last /\ pc'[u] = "commit" => canonical = "gone"
    BY <1>2, <1>4 DEF DeletionInv
  <2>1. CASE u # v
    BY <1>2, <1>4, <2>1 DEF SharingInv, DeletionInv
  <2>2. CASE u = v
    <3>1. \A i \in Filed : report[i] = v => i \in ReportsOf(v)
      BY DEF ReportsOf
    <3> QED BY <1>2, <1>3, <1>4, <2>2, <3>1 DEF SharingInv, DeletionInv, Deleting
  <2> QED BY <2>1, <2>2
<1> QED BY <1>4, <1>5, <1>6, <1>7, <1>8 DEF SharingInv, LockInv

LEMMA DeleteEventKeeps == ASSUME SharingInv, NEW v \in Visitors, DeleteEvent(v) PROVE SharingInv'
<1> USE Kinds
<1> DEFINE s == IF v \in last THEN "run" ELSE "count"
<1>1. /\ pc[v] = "event" /\ Granted(v) /\ Continue(v, s) /\ UNCHANGED <<rows, target, drop, last>>
      /\ unmapped' = IF EventOf(v) THEN unmapped \cup {v} ELSE unmapped
      /\ SharedRunTypeOK
  BY DEF DeleteEvent, Reaches, SharingInv, Types
<1>2. UNCHANGED <<canonical, access, report, event, due, target, drop, last>>
  BY <1>1 DEF rows
<1>3. /\ pc' \in [Processes -> Steps] /\ pc'[v] = s /\ \A q \in Processes : q # v => pc'[q] = pc[q]
      /\ Filed' = Filed /\ CaptureInv' /\ AccessHeld' /\ OwnerInv' /\ EventInv' /\ DeletedNotReported'
  BY <1>1, DeletionUnnoticed DEF Deleting
<1>4. Types'
  BY <1>1, <1>2, <1>3 DEF Types, SharedRunTypeOK
<1>5. ASSUME EventOf(v)
      PROVE  /\ event # NoEvent /\ (v \in last \/ event.id \in drop[v] \/ event.of = v)
             /\ \A k \in Captors : pc[k] \notin Deciding
             /\ \A u \in Visitors : u # v => u \notin unmapped
  <2>1. event # NoEvent /\ (v \in last \/ event.id \in drop[v] \/ event.of = v)
    BY <1>5 DEF EventOf
  <2>2. <<"event", 0>> \in Wants(v)
    BY <1>1, <1>5, Wanted
  <2> QED BY <1>1, <2>1, <2>2, EventGranted
<1>6. EventHeld'
  <2>1. CASE EventOf(v)
    BY <1>3, <1>5, <2>1 DEF EventHeld
  <2>2. CASE ~EventOf(v)
    BY <1>1, <1>2, <1>3, <2>2 DEF SharingInv, LockInv, EventHeld
  <2> QED BY <2>1, <2>2
<1>7. DropsApart'
  <2>1. \A u, w \in unmapped' : u = w
    <3>1. unmapped \subseteq Visitors /\ \A u, w \in unmapped : u = w
      BY <1>1 DEF SharedRunTypeOK, SharingInv, LockInv, DropsApart
    <3> QED BY <1>1, <1>5, <3>1
  <2> QED BY <1>2, <1>3, <2>1 DEF SharingInv, LockInv, DropsApart
<1>8. DeletionInv'
  <2> SUFFICES ASSUME NEW u \in Visitors
               PROVE  /\ drop[u] \subseteq Filed
                      /\ u \in unmapped' => event # NoEvent /\ (u \in last \/ event.id \in drop[u] \/ event.of = u)
                      /\ u \in last => pc'[u] \in Deleting \ {"count"}
                      /\ pc'[u] \in Swept \/ u \in last => \A i \in Filed : report[i] = u => i \in drop[u]
                      /\ u \in last /\ pc'[u] = "commit" => canonical = "gone"
    BY <1>2, <1>3 DEF DeletionInv
  <2>1. CASE u # v
    BY <1>1, <1>3, <2>1 DEF SharingInv, DeletionInv
  <2>2. CASE u = v
    <3>1. v \in unmapped' => event # NoEvent /\ (v \in last \/ event.id \in drop[v] \/ event.of = v)
      BY <1>1, <1>5 DEF SharingInv, DeletionInv
    <3>2. drop[v] \subseteq Filed /\ \A i \in Filed : report[i] = v => i \in drop[v]
      BY <1>1 DEF SharingInv, DeletionInv, Swept
    <3> QED BY <1>3, <2>2, <3>1, <3>2 DEF Deleting
  <2> QED BY <2>1, <2>2
<1> QED BY <1>3, <1>4, <1>6, <1>7, <1>8 DEF SharingInv, LockInv

\* Once the deletion has counted no other access it takes the run along, and
\* everything reported of the run.
LEMMA CountKeeps == ASSUME SharingInv, NEW v \in Visitors, CountAccesses(v) PROVE SharingInv'
<1> USE Kinds
<1> DEFINE s == IF Remaining(v) = {} THEN "reports" ELSE "commit"
<1>1. /\ pc[v] = "count" /\ Continue(v, s) /\ UNCHANGED <<rows, target, drop, unmapped>>
      /\ last' = IF Remaining(v) = {} THEN last \cup {v} ELSE last
      /\ SharedRunTypeOK
  BY DEF CountAccesses, SharingInv, Types
<1>2. UNCHANGED <<canonical, access, report, event, due, target, drop, unmapped>>
  BY <1>1 DEF rows
<1>3. /\ pc' \in [Processes -> Steps] /\ pc'[v] = s /\ \A q \in Processes : q # v => pc'[q] = pc[q]
      /\ Filed' = Filed /\ CaptureInv' /\ AccessHeld' /\ OwnerInv' /\ EventInv' /\ DeletedNotReported'
  BY <1>1, DeletionUnnoticed DEF Deleting
<1>4. Types'
  BY <1>1, <1>2, <1>3 DEF Types, SharedRunTypeOK
<1>5. EventHeld' /\ DropsApart'
  BY <1>2, <1>3 DEF SharingInv, LockInv, EventHeld, DropsApart
<1>6. DeletionInv'
  <2> SUFFICES ASSUME NEW u \in Visitors
               PROVE  /\ drop[u] \subseteq Filed
                      /\ u \in unmapped => event # NoEvent /\ (u \in last' \/ event.id \in drop[u] \/ event.of = u)
                      /\ u \in last' => pc'[u] \in Deleting \ {"count"}
                      /\ pc'[u] \in Swept \/ u \in last' => \A i \in Filed : report[i] = u => i \in drop[u]
                      /\ u \in last' /\ pc'[u] = "commit" => canonical = "gone"
    BY <1>2, <1>3 DEF DeletionInv
  <2>1. CASE u # v
    BY <1>1, <1>3, <2>1 DEF SharingInv, DeletionInv
  <2>2. CASE u = v
    <3>1. v \notin last /\ drop[v] \subseteq Filed /\ \A i \in Filed : report[i] = v => i \in drop[v]
      BY <1>1 DEF SharingInv, DeletionInv, Swept
    <3>2. v \in unmapped => event # NoEvent /\ (v \in last \/ event.id \in drop[v] \/ event.of = v)
      BY DEF SharingInv, DeletionInv
    <3> QED BY <1>1, <1>3, <2>2, <3>1, <3>2 DEF Deleting
  <2> QED BY <2>1, <2>2
<1> QED BY <1>3, <1>4, <1>5, <1>6 DEF SharingInv, LockInv

\* A process other than a deletion takes up a target.
LEMMA Targets ==
  ASSUME SharingInv, NEW p \in Captors \cup {Owner}, NEW t \in Visitors \cup Ids, NEW s \in {"source", "delete"},
         p \in Captors => t \in Visitors /\ s = "source", p = Owner => t \in Ids /\ s = "delete",
         target' = [target EXCEPT ![p] = t], Continue(p, s), UNCHANGED <<rows, drop, unmapped, last>>
  PROVE  SharingInv'
<1> USE Kinds
<1>1. /\ pc \in [Processes -> Steps] /\ pc' = [pc EXCEPT ![p] = s] /\ p \in Processes
      /\ UNCHANGED <<canonical, access, report, event, due, drop, unmapped, last>> /\ SharedRunTypeOK
  BY DEF SharingInv, Types, Continue, rows
<1>2. /\ pc'[p] = s /\ target'[p] = t
      /\ \A q \in Processes : q # p => pc'[q] = pc[q] /\ target'[q] = target[q]
  BY <1>1 DEF SharedRunTypeOK
<1>3. Types'
  <2>1. pc' \in [Processes -> Steps]
    BY <1>1 DEF Steps
  <2>2. target' \in [Processes -> Visitors \cup Ids \cup {Nobody}]
    BY <1>1 DEF SharedRunTypeOK
  <2> QED BY <1>1, <2>1, <2>2 DEF Types, SharedRunTypeOK
<1>4. Filed' = Filed
  BY <1>1 DEF Filed
<1>5. ASSUME NEW k \in Captors, pc'[k] \in Validated
      PROVE  k # p /\ pc[k] \in Validated /\ target'[k] = target[k]
  BY <1>2, <1>5 DEF Validated
<1>6. CaptureInv'
  <2> SUFFICES ASSUME NEW k \in Captors
               PROVE  /\ pc'[k] # "idle" => target'[k] \in Visitors
                      /\ pc'[k] \in Validated => access[target'[k]] = "live" /\ canonical # "gone"
                      /\ pc'[k] \in Deciding => ~event.suppressed
                      /\ pc'[k] = "write" => event.id \notin Filed
    BY <1>1, <1>4 DEF CaptureInv
  <2>1. CASE k = p
    BY <1>2, <2>1 DEF Validated, Deciding
  <2>2. CASE k # p
    BY <1>2, <2>2 DEF SharingInv, CaptureInv
  <2> QED BY <2>1, <2>2
<1>7. AccessHeld'
  <2> SUFFICES ASSUME NEW k \in Captors, pc'[k] \in Validated
               PROVE  pc'[target'[k]] \notin Deleting /\ pc'[Retention] # "purged"
    BY DEF AccessHeld
  <2>1. target[k] \in Visitors /\ pc[target[k]] \notin Deleting /\ pc[Retention] # "purged"
    BY <1>5, Validates
  <2> QED BY <1>2, <1>5, <2>1
<1>8. EventHeld' /\ DropsApart'
  BY <1>1, <1>2 DEF SharingInv, LockInv, EventHeld, DropsApart, Deciding
<1>9. DeletionInv'
  BY <1>1, <1>2, <1>4 DEF SharingInv, DeletionInv
<1>10. OwnerInv' /\ EventInv' /\ DeletedNotReported'
  BY <1>1, <1>2, <1>4 DEF SharingInv, OwnerInv, EventInv, DeletedNotReported
<1> QED BY <1>3, <1>6, <1>7, <1>8, <1>9, <1>10 DEF SharingInv, LockInv

LEMMA CollectKeeps == ASSUME SharingInv, NEW k \in Captors, Collect(k) PROVE SharingInv'
<1>1. NewestRetained \in Visitors
  BY NewestIsVisitor DEF Collect, Retained
<1> QED BY <1>1, Targets, Kinds DEF Collect

LEMMA PreviewKeeps == ASSUME SharingInv, NEW i \in Ids, PreviewReport(i) PROVE SharingInv'
<1> QED BY Targets, Kinds DEF PreviewReport

-----------------------------------------------------------------------------
(* Commits of a deletion *)

LEMMA CommitAccessKeeps == ASSUME SharingInv, NEW v \in Visitors, CommitAccess(v) PROVE SharingInv'
<1> USE Kinds
<1>1. /\ pc[v] = "joined" /\ End(v, "idle") /\ access' = [access EXCEPT ![v] = "live"]
      /\ UNCHANGED <<canonical, report, event, due>> /\ Filed' = Filed /\ SharedRunTypeOK
  BY DEF CommitAccess, Close, SharingInv, Types, Filed
<1>2. /\ pc' \in [Processes -> Steps] /\ pc'[v] = "idle" /\ drop'[v] = {}
      /\ \A q \in Processes : q # v => pc'[q] = pc[q] /\ drop'[q] = drop[q] /\ target'[q] = target[q]
      /\ unmapped' = unmapped \ {v} /\ last' = last \ {v} /\ AccessHeld' /\ DropsApart'
      /\ target' \in [Processes -> Visitors \cup Ids \cup {Nobody}] /\ drop' \in [Processes -> SUBSET Ids]
      /\ unmapped' \subseteq Visitors /\ last' \subseteq Visitors
  BY <1>1, Ended
<1>3. access'[v] = "live" /\ \A u \in Visitors : u # v => access'[u] = access[u]
  BY <1>1 DEF SharedRunTypeOK
<1>4. access' \in [Visitors -> {"none", "live", "deleted", "removed"}]
  BY <1>1 DEF SharedRunTypeOK
<1>5. Types'
  BY <1>1, <1>2, <1>4 DEF Types, SharedRunTypeOK
<1>6. EventHeld' /\ OwnerInv'
  BY <1>1, <1>2 DEF SharingInv, LockInv, EventHeld, OwnerInv
<1>7. CaptureInv'
  BY <1>1, <1>2, <1>3 DEF SharingInv, CaptureInv, Validated
<1>8. DeletionInv'
  <2> SUFFICES ASSUME NEW u \in Visitors
               PROVE  /\ drop'[u] \subseteq Filed
                      /\ u \in unmapped' => event # NoEvent /\ (u \in last' \/ event.id \in drop'[u] \/ event.of = u)
                      /\ u \in last' => pc'[u] \in Deleting \ {"count"}
                      /\ pc'[u] \in Swept \/ u \in last' => \A i \in Filed : report[i] = u => i \in drop'[u]
                      /\ u \in last' /\ pc'[u] = "commit" => canonical = "gone"
    BY <1>1 DEF DeletionInv
  <2>1. CASE u # v
    BY <1>2, <2>1 DEF SharingInv, DeletionInv
  <2>2. CASE u = v
    BY <1>2, <2>2 DEF Swept
  <2> QED BY <2>1, <2>2
<1>9. EventInv'
  BY <1>1 DEF SharingInv, EventInv
<1>10. DeletedNotReported'
  <2>1. \A i \in Filed : report[i] \in Visitors
    BY <1>1 DEF SharedRunTypeOK, Filed
  <2> QED BY <1>1, <1>3, <2>1 DEF SharingInv, DeletedNotReported
<1> QED BY <1>2, <1>5, <1>6, <1>7, <1>8, <1>9, <1>10 DEF SharingInv, LockInv

\* The deletion takes with it every report that quotes its access, and, when
\* it takes the run, no capture is left that could file another one.
LEMMA DeletionCommits ==
  ASSUME SharingInv, NEW v \in Visitors, Deleted(v),
         access' \in [Visitors -> {"none", "live", "deleted", "removed"}],
         \A u \in Visitors : u # v => (access'[u] = "deleted" => access[u] = "deleted"),
         \/ /\ pc[v] = "commit" /\ canonical' = canonical
            /\ \A u \in Visitors : u # v => access'[u] = access[u]
         \/ /\ pc[v] = "purge" /\ canonical' = "gone"
            /\ \A k \in Captors : pc[k] \notin Validated
  PROVE  SharingInv'
<1> USE Kinds
<1>1. /\ report' = [i \in Ids |-> IF i \in drop[v] THEN Nobody ELSE report[i]]
      /\ event' = (IF v \in unmapped THEN NoEvent ELSE event)
      /\ due' = due /\ End(v, "idle") /\ SharedRunTypeOK /\ pc[v] \in Swept /\ pc[v] \in Deleting
  BY DEF Deleted, Close, SharingInv, Types, Swept, Deleting
<1>2. /\ pc' \in [Processes -> Steps] /\ pc'[v] = "idle" /\ drop'[v] = {}
      /\ \A q \in Processes : q # v => pc'[q] = pc[q] /\ drop'[q] = drop[q] /\ target'[q] = target[q]
      /\ unmapped' = unmapped \ {v} /\ last' = last \ {v} /\ AccessHeld' /\ DropsApart'
      /\ target' \in [Processes -> Visitors \cup Ids \cup {Nobody}] /\ drop' \in [Processes -> SUBSET Ids]
      /\ unmapped' \subseteq Visitors /\ last' \subseteq Visitors
  BY <1>1, Ended
<1>3. Filed' = Filed \ drop[v] /\ \A i \in Filed' : report'[i] = report[i]
  BY <1>1 DEF Filed
<1>4. Types'
  <2>1. report' \in [Ids -> Visitors \cup {Nobody}]
    BY <1>1 DEF SharedRunTypeOK
  <2>2. event' \in [id : Ids \cup {Nobody}, of : Visitors, suppressed : BOOLEAN] \cup {NoEvent}
    BY <1>1 DEF SharedRunTypeOK
  <2>3. canonical' \in {"complete", "failed", "gone"} /\ due' \in BOOLEAN
    BY <1>1 DEF SharedRunTypeOK
  <2> QED BY <1>2, <2>1, <2>2, <2>3 DEF Types, SharedRunTypeOK
<1>5. \A i \in Filed : report[i] = v => i \in drop[v]
  BY <1>1 DEF SharingInv, DeletionInv
<1>6. \A u \in Visitors : u # v /\ u \in unmapped => v \notin unmapped
  BY DEF SharingInv, LockInv, DropsApart
<1>7. ASSUME NEW k \in Captors, pc[k] \in Validated
      PROVE  /\ target[k] \in Visitors \ {v} /\ access'[target[k]] = "live" /\ canonical' # "gone"
             /\ pc[v] = "commit" /\ k # v
  BY <1>1, <1>7, Validates
<1>8. EventHeld'
  <2> SUFFICES ASSUME NEW k \in Captors, pc'[k] \in Deciding
               PROVE  /\ \A l \in Captors : pc'[l] \in Deciding => l = k
                      /\ pc'[Owner] # "suppress"
                      /\ event' # NoEvent => unmapped' = {}
    BY DEF EventHeld
  <2> QED BY <1>1, <1>2 DEF SharingInv, LockInv, EventHeld
<1>9. CaptureInv'
  <2> SUFFICES ASSUME NEW k \in Captors
               PROVE  /\ pc[k] # "idle" => target[k] \in Visitors
                      /\ pc[k] \in Validated => access'[target[k]] = "live" /\ canonical' # "gone"
                      /\ pc[k] \in Deciding => ~event'.suppressed
                      /\ pc[k] = "write" => event'.id \notin Filed'
    BY <1>2 DEF CaptureInv
  <2>1. /\ pc[k] # "idle" => target[k] \in Visitors
        /\ pc[k] \in Deciding => ~event.suppressed
        /\ pc[k] = "write" => event.id \notin Filed
    BY DEF SharingInv, CaptureInv
  <2>2. ~NoEvent.suppressed /\ NoEvent.id \notin Filed
    BY DEF NoEvent, Filed
  <2> QED BY <1>1, <1>3, <1>7, <2>1, <2>2
<1>10. DeletionInv'
  <2> SUFFICES ASSUME NEW u \in Visitors
               PROVE  /\ drop'[u] \subseteq Filed'
                      /\ u \in unmapped' => event' # NoEvent /\ (u \in last' \/ event'.id \in drop'[u] \/ event'.of = u)
                      /\ u \in last' => pc'[u] \in Deleting \ {"count"}
                      /\ pc'[u] \in Swept \/ u \in last' => \A i \in Filed' : report'[i] = u => i \in drop'[u]
                      /\ u \in last' /\ pc'[u] = "commit" => canonical' = "gone"
    BY DEF DeletionInv
  <2>1. CASE u # v
    <3>1. drop[u] \subseteq Filed /\ drop[u] \cap drop[v] = {}
      BY <2>1 DEF SharingInv, DeletionInv, LockInv, DropsApart
    <3>2. u \in unmapped => event' # NoEvent /\ (u \in last \/ event'.id \in drop[u] \/ event'.of = u)
      BY <1>1, <1>6, <2>1 DEF SharingInv, DeletionInv
    <3>3. /\ u \in last => pc[u] \in Deleting \ {"count"}
          /\ pc[u] \in Swept \/ u \in last => \A i \in Filed' : report'[i] = u => i \in drop[u]
      BY <1>3 DEF SharingInv, DeletionInv
    <3>4. u \in last /\ pc[u] = "commit" => canonical' = "gone"
      BY DEF SharingInv, DeletionInv
    <3> QED BY <1>2, <1>3, <2>1, <3>1, <3>2, <3>3, <3>4
  <2>2. CASE u = v
    BY <1>2, <2>2 DEF Swept
  <2> QED BY <2>1, <2>2
<1>11. OwnerInv'
  BY <1>2, <1>3 DEF SharingInv, OwnerInv, LockInv, DropsApart
<1>12. EventInv'
  <2>1. canonical' # "gone" => Filed' \subseteq {event'.id}
    <3>1. SUFFICES ASSUME canonical' # "gone" PROVE Filed' \subseteq {event'.id}
      OBVIOUS
    <3>2. Filed \subseteq {event.id} /\ v \notin last
      BY <3>1 DEF SharingInv, EventInv, DeletionInv
    <3>3. ASSUME v \in unmapped PROVE Filed' = {}
      <4>1. event.id \in drop[v] \/ event.of = v
        BY <3>2, <3>3 DEF SharingInv, DeletionInv
      <4>2. event.id \in Filed => report[event.id] = event.of
        BY DEF SharingInv, EventInv
      <4> QED BY <1>3, <1>5, <3>2, <4>1, <4>2
    <3> QED BY <1>1, <1>3, <3>2, <3>3
  <2>2. event'.id \in Filed' => report'[event'.id] = event'.of
    BY <1>1, <1>3 DEF SharingInv, EventInv, NoEvent, Filed
  <2>3. \A i, j \in Filed' : i = j
    BY <1>3 DEF SharingInv, EventInv
  <2>4. event'.suppressed => Filed' = {}
    BY <1>1, <1>3 DEF SharingInv, EventInv, NoEvent
  <2> QED BY <2>1, <2>2, <2>3, <2>4 DEF EventInv
<1>13. DeletedNotReported'
  <2>1. \A i \in Filed' : report[i] \in Visitors /\ report[i] # v /\ access[report[i]] # "deleted"
    BY <1>1, <1>3, <1>5 DEF SharedRunTypeOK, Filed, SharingInv, DeletedNotReported
  <2> QED BY <1>3, <2>1 DEF DeletedNotReported
<1> QED BY <1>2, <1>4, <1>8, <1>9, <1>10, <1>11, <1>12, <1>13 DEF SharingInv, LockInv

LEMMA CommitDeletionKeeps == ASSUME SharingInv, NEW v \in Visitors, CommitDeletion(v) PROVE SharingInv'
<1>1. access' = [access EXCEPT ![v] = "deleted"] /\ access \in [Visitors -> {"none", "live", "deleted", "removed"}]
  BY DEF CommitDeletion, SharingInv, Types, SharedRunTypeOK
<1>2. \A u \in Visitors : u # v => access'[u] = access[u]
  BY <1>1
<1>3. access' \in [Visitors -> {"none", "live", "deleted", "removed"}]
  BY <1>1
<1> QED BY <1>2, <1>3, DeletionCommits DEF CommitDeletion

LEMMA CascadeAccess ==
  ASSUME SharedRunTypeOK, NEW S
  PROVE  /\ Cascade(S) \in [Visitors -> {"none", "live", "deleted", "removed"}]
         /\ \A u \in Visitors : Cascade(S)[u] = "deleted" => u \in S \/ access[u] = "deleted"
<1>1. \A u \in Visitors : access[u] \in {"none", "live", "deleted", "removed"}
  BY DEF SharedRunTypeOK
<1> QED BY <1>1 DEF Cascade

LEMMA CommitPurgeKeeps == ASSUME SharingInv, NEW v \in Visitors, CommitPurge(v) PROVE SharingInv'
<1>1. pc[v] = "purge" /\ Granted(v) /\ canonical' = "gone" /\ access' = Cascade({v}) /\ Deleted(v)
  BY DEF CommitPurge, Reaches
<1>2. ASSUME NEW k \in Captors, pc[k] \in Validated PROVE FALSE
  <2>1. target[k] \in Visitors
    BY <1>2, Validates
  <2> QED BY <1>1, <1>2, <2>1, Wanted, AccessGranted, Kinds
<1>3. /\ access' \in [Visitors -> {"none", "live", "deleted", "removed"}]
      /\ \A u \in Visitors : access'[u] = "deleted" => u \in {v} \/ access[u] = "deleted"
  BY <1>1, CascadeAccess DEF SharingInv, Types
<1> QED BY <1>1, <1>2, <1>3, DeletionCommits

-----------------------------------------------------------------------------
(* Commits of the others *)

\* Whoever files a report finds none, holds its access and the event, and so
\* meets no deletion of that access and no other decision on the event.
LEMMA Files ==
  ASSUME SharingInv, NEW k \in Captors, pc[k] = "write"
  PROVE  /\ Filed = {} /\ unmapped = {} /\ ~event.suppressed
         /\ \A v \in Visitors : drop[v] = {}
         /\ \A l \in Captors : pc[l] \in Deciding => l = k
         /\ pc[Owner] # "suppress"
<1>1. event.id \notin Filed /\ ~event.suppressed /\ canonical # "gone"
  BY DEF SharingInv, CaptureInv, Validated, Deciding
<1>2. Filed = {}
  BY <1>1 DEF SharingInv, EventInv
<1>3. /\ \A l \in Captors : pc[l] \in Deciding => l = k
      /\ pc[Owner] # "suppress" /\ (event # NoEvent => unmapped = {})
  BY DEF SharingInv, LockInv, EventHeld, Deciding
<1>4. \A v \in Visitors : drop[v] = {} /\ (v \in unmapped => event # NoEvent)
  BY <1>2 DEF SharingInv, DeletionInv
<1>5. unmapped = {}
  BY <1>3, <1>4 DEF SharingInv, Types, SharedRunTypeOK
<1> QED BY <1>1, <1>2, <1>3, <1>4, <1>5

LEMMA CommitReportKeeps == ASSUME SharingInv, NEW k \in Captors, CommitReport(k) PROVE SharingInv'
<1> USE Kinds
<1> DEFINE t == target[k]
<1>1. /\ pc[k] = "write" /\ End(k, "idle") /\ UNCHANGED <<canonical, access, due>> /\ SharedRunTypeOK
  BY DEF CommitReport, Reaches, Close, SharingInv, Types
<1>2. /\ t \in Visitors /\ access[t] = "live" /\ pc[t] \notin Deleting
  BY <1>1, Validates DEF Validated
<1>3. /\ Filed = {} /\ unmapped = {} /\ (\A v \in Visitors : drop[v] = {})
      /\ (\A l \in Captors : pc[l] \in Deciding => l = k) /\ pc[Owner] # "suppress"
  BY <1>1, Files
<1>4. PICK n \in Ids \cup {Nobody} :
        /\ event' = [id |-> n, of |-> t, suppressed |-> n = Nobody]
        /\ n = Nobody => report' = report
        /\ n # Nobody => report' = [report EXCEPT ![n] = t]
  <2>1. Min(FreshIds) \in Ids
    BY <1>1, <1>3, FreshId DEF FreshIds
  <2>2. \/ event' = [id |-> Nobody, of |-> t, suppressed |-> TRUE] /\ report' = report
        \/ /\ report' = [report EXCEPT ![Min(FreshIds)] = t]
           /\ event' = [id |-> Min(FreshIds), of |-> t, suppressed |-> FALSE]
    BY DEF CommitReport
  <2> HIDE DEF t
  <2>3. CASE event' = [id |-> Nobody, of |-> t, suppressed |-> TRUE] /\ report' = report
    <3>1. Nobody = Nobody /\ Nobody \in Ids \cup {Nobody}
      OBVIOUS
    <3> QED BY <2>3, <3>1
  <2>4. CASE /\ report' = [report EXCEPT ![Min(FreshIds)] = t]
             /\ event' = [id |-> Min(FreshIds), of |-> t, suppressed |-> FALSE]
    BY <2>1, <2>4
  <2> QED BY <2>2, <2>3, <2>4
<1>5. /\ pc' \in [Processes -> Steps] /\ pc'[k] = "idle" /\ AccessHeld' /\ DropsApart'
      /\ \A q \in Processes : q # k => pc'[q] = pc[q] /\ drop'[q] = drop[q] /\ target'[q] = target[q]
      /\ unmapped' = unmapped \ {k} /\ last' = last \ {k}
      /\ target' \in [Processes -> Visitors \cup Ids \cup {Nobody}] /\ drop' \in [Processes -> SUBSET Ids]
      /\ unmapped' \subseteq Visitors /\ last' \subseteq Visitors
      /\ \A l \in Captors : pc'[l] # "idle" => l # k /\ pc[l] # "idle" /\ target'[l] \in Visitors
  BY <1>1, Ended
<1>6. /\ event'.id = n /\ event'.of = t /\ event'.suppressed = (n = Nobody)
      /\ Filed' = {n} \ {Nobody} /\ (n # Nobody => report'[n] = t)
  <2>1. event'.id = n /\ event'.of = t /\ event'.suppressed = (n = Nobody)
    BY <1>4
  <2>2. CASE n = Nobody
    BY <1>3, <1>4, <2>1, <2>2 DEF Filed
  <2>3. CASE n # Nobody
    <3>1. report'[n] = t /\ \A i \in Ids : i # n => report'[i] = report[i]
      BY <1>1, <1>4, <2>3 DEF SharedRunTypeOK
    <3> QED BY <1>2, <1>3, <2>1, <2>3, <3>1 DEF Filed
  <2> QED BY <2>2, <2>3
<1>7. Types'
  <2>1. report' \in [Ids -> Visitors \cup {Nobody}]
    BY <1>1, <1>2, <1>4 DEF SharedRunTypeOK
  <2>2. event' \in [id : Ids \cup {Nobody}, of : Visitors, suppressed : BOOLEAN]
    BY <1>2, <1>4
  <2> HIDE DEF t
  <2> QED BY <1>1, <1>5, <2>1, <2>2 DEF Types, SharedRunTypeOK
<1> HIDE DEF t
<1>8. ASSUME NEW l \in Captors PROVE pc'[l] \notin Deciding
  BY <1>3, <1>5 DEF Deciding
<1>9. EventHeld'
  BY <1>8 DEF EventHeld
<1>10. CaptureInv'
  <2> SUFFICES ASSUME NEW l \in Captors, pc'[l] # "idle"
               PROVE  target'[l] \in Visitors /\ (pc'[l] \in Validated => access[target'[l]] = "live" /\ canonical # "gone")
    BY <1>1, <1>8 DEF CaptureInv, Deciding, Validated
  <2>1. l # k /\ pc'[l] = pc[l] /\ target'[l] = target[l]
    BY <1>5
  <2> QED BY <1>5, <2>1, Validates
<1>11. DeletionInv'
  <2> SUFFICES ASSUME NEW v \in Visitors
               PROVE  /\ drop'[v] \subseteq Filed' /\ v \notin unmapped'
                      /\ v \in last' => pc'[v] \in Deleting \ {"count"}
                      /\ pc'[v] \in Swept \/ v \in last' => \A i \in Filed' : report'[i] = v => i \in drop'[v]
                      /\ v \in last' /\ pc'[v] = "commit" => canonical' = "gone"
    BY DEF DeletionInv
  <2>1. v # k /\ pc'[v] = pc[v] /\ drop'[v] = {} /\ v \notin unmapped' /\ (v \in last' <=> v \in last)
    BY <1>3, <1>5
  <2>2. /\ v \in last => pc[v] \in Deleting \ {"count"}
        /\ v \in last /\ pc[v] = "commit" => canonical = "gone"
    BY DEF SharingInv, DeletionInv
  <2>3. \A i \in Filed' : report'[i] = v => pc[v] \notin Deleting
    BY <1>2, <1>6
  <2> QED BY <1>1, <2>1, <2>2, <2>3 DEF Swept, Deleting
<1>12. OwnerInv'
  BY <1>3, <1>5 DEF SharingInv, OwnerInv
<1>13. EventInv' /\ DeletedNotReported'
  BY <1>1, <1>2, <1>6 DEF EventInv, DeletedNotReported
<1> QED BY <1>5, <1>7, <1>9, <1>10, <1>11, <1>12, <1>13 DEF SharingInv, LockInv

LEMMA CommitSuppressionKeeps == ASSUME SharingInv, CommitSuppression PROVE SharingInv'
<1> USE Kinds
<1> DEFINE t == target[Owner]
<1>1. /\ pc[Owner] = "suppress" /\ Granted(Owner) /\ End(Owner, "idle")
      /\ event' = [id |-> t, of |-> report[t], suppressed |-> TRUE]
      /\ report' = [report EXCEPT ![t] = Nobody]
      /\ UNCHANGED <<canonical, access, due>> /\ SharedRunTypeOK
  BY DEF CommitSuppression, Reaches, Close, SharingInv, Types
<1>2. /\ t \in Filed /\ t \in Ids /\ report[t] \in Visitors
  BY <1>1 DEF SharingInv, OwnerInv, Filed, SharedRunTypeOK
<1>3. Filed = {t} /\ Filed' = {}
  <2>1. Filed = {t}
    BY <1>2 DEF SharingInv, EventInv
  <2>2. \A i \in Ids : report'[i] = IF i = t THEN Nobody ELSE report[i]
    BY <1>1, <1>2 DEF SharedRunTypeOK
  <2> QED BY <2>1, <2>2 DEF Filed
<1>4. \A v \in Visitors : drop[v] = {}
  BY <1>1, <1>3 DEF SharingInv, DeletionInv, LockInv, DropsApart
<1>5. unmapped = {}
  <2>1. event # NoEvent => \A v \in Visitors : v \notin unmapped
    BY <1>1, Wanted, EventGranted
  <2> QED BY <1>1, <2>1 DEF SharingInv, DeletionInv, SharedRunTypeOK
<1>6. \A k \in Captors : pc[k] \notin Deciding
  BY <1>1 DEF SharingInv, LockInv, EventHeld
<1>7. /\ pc' \in [Processes -> Steps] /\ pc'[Owner] = "idle" /\ AccessHeld' /\ DropsApart'
      /\ \A q \in Processes : q # Owner => pc'[q] = pc[q] /\ drop'[q] = drop[q] /\ target'[q] = target[q]
      /\ unmapped' = unmapped \ {Owner} /\ last' = last \ {Owner}
      /\ target' \in [Processes -> Visitors \cup Ids \cup {Nobody}] /\ drop' \in [Processes -> SUBSET Ids]
      /\ unmapped' \subseteq Visitors /\ last' \subseteq Visitors
  BY <1>1, Ended
<1>8. Types'
  <2>1. report' \in [Ids -> Visitors \cup {Nobody}]
    BY <1>1 DEF SharedRunTypeOK
  <2>2. event' \in [id : Ids \cup {Nobody}, of : Visitors, suppressed : BOOLEAN]
    BY <1>1, <1>2
  <2> HIDE DEF t
  <2> QED BY <1>1, <1>7, <2>1, <2>2 DEF Types, SharedRunTypeOK
<1>9. EventHeld'
  BY <1>6, <1>7 DEF EventHeld
<1>10. CaptureInv'
  <2> SUFFICES ASSUME NEW k \in Captors
               PROVE  /\ pc[k] # "idle" => target[k] \in Visitors
                      /\ pc[k] \in Validated => access[target[k]] = "live" /\ canonical # "gone"
    BY <1>1, <1>6, <1>7 DEF CaptureInv, Deciding
  <2> QED BY DEF SharingInv, CaptureInv
<1>11. DeletionInv'
  BY <1>1, <1>3, <1>4, <1>5, <1>7 DEF SharingInv, DeletionInv
<1>12. OwnerInv' /\ EventInv' /\ DeletedNotReported'
  BY <1>3, <1>7 DEF OwnerInv, EventInv, DeletedNotReported
<1> QED BY <1>7, <1>8, <1>9, <1>10, <1>11, <1>12 DEF SharingInv, LockInv

LEMMA CommitRetentionKeeps == ASSUME SharingInv, CommitRetention PROVE SharingInv'
<1> USE Kinds
<1>1. /\ pc[Retention] = "purged" /\ Granted(Retention) /\ End(Retention, "idle")
      /\ canonical' = "gone" /\ access' = Cascade({}) /\ report' = [i \in Ids |-> Nobody]
      /\ event' = NoEvent /\ due' = due /\ SharedRunTypeOK
  BY DEF CommitRetention, Reaches, Close, SharingInv, Types
<1>2. Filed' = {}
  BY <1>1 DEF Filed
<1>3. \A v \in Visitors : drop[v] = {}
  <2>1. \A i \in Filed, v \in Visitors : i \notin drop[v]
    BY <1>1, Wanted, ReportGranted DEF Filed
  <2> QED BY <2>1 DEF SharingInv, DeletionInv
<1>4. unmapped = {}
  <2>1. event # NoEvent => \A v \in Visitors : v \notin unmapped
    BY <1>1, Wanted, EventGranted
  <2> QED BY <1>1, <2>1 DEF SharingInv, DeletionInv, SharedRunTypeOK
<1>5. pc[Owner] # "suppress"
  <2>1. \A i \in Filed : pc[Owner] = "suppress" => target[Owner] # i
    BY <1>1, Wanted, ReportGranted DEF Filed
  <2> QED BY <2>1 DEF SharingInv, OwnerInv
<1>6. \A k \in Captors : pc[k] \notin Validated
  BY <1>1, Validates
<1>7. /\ pc' \in [Processes -> Steps] /\ pc'[Retention] = "idle" /\ AccessHeld' /\ DropsApart'
      /\ \A q \in Processes : q # Retention => pc'[q] = pc[q] /\ drop'[q] = drop[q] /\ target'[q] = target[q]
      /\ unmapped' = unmapped \ {Retention} /\ last' = last \ {Retention}
      /\ target' \in [Processes -> Visitors \cup Ids \cup {Nobody}] /\ drop' \in [Processes -> SUBSET Ids]
      /\ unmapped' \subseteq Visitors /\ last' \subseteq Visitors
  BY <1>1, Ended
<1>8. Types'
  <2>1. access' \in [Visitors -> {"none", "live", "deleted", "removed"}]
    BY <1>1, CascadeAccess
  <2> QED BY <1>1, <1>7, <2>1 DEF Types, SharedRunTypeOK
<1>9. EventHeld' /\ OwnerInv'
  BY <1>5, <1>6, <1>7 DEF EventHeld, Deciding, Validated, SharingInv, OwnerInv
<1>10. CaptureInv'
  BY <1>6, <1>7 DEF SharingInv, CaptureInv, Validated, Deciding
<1>11. DeletionInv'
  BY <1>1, <1>2, <1>3, <1>4, <1>7 DEF SharingInv, DeletionInv
<1>12. EventInv' /\ DeletedNotReported'
  BY <1>1, <1>2, SharedRunAssumption DEF EventInv, DeletedNotReported, NoEvent
<1> QED BY <1>7, <1>8, <1>9, <1>10, <1>11, <1>12 DEF SharingInv, LockInv

-----------------------------------------------------------------------------
(* Sweeps, the failure and the age of the run *)

LEMMA SweepReportsKeeps == ASSUME SharingInv, SweepReports PROVE SharingInv'
<1> USE Kinds
<1>1. /\ canonical = "gone" /\ report' = [i \in Ids |-> IF i \in Filed THEN Nobody ELSE report[i]]
      /\ \A p \in Processes : ReportRows(Filed) \cap LockedBy(p) = {}
      /\ UNCHANGED <<canonical, access, event, due, pc, target, drop, unmapped, last>> /\ SharedRunTypeOK
  BY DEF SweepReports, Orphans, open, SharingInv, Types
<1>2. Filed' = {}
  BY <1>1 DEF Filed
<1>3. \A i \in Filed, p \in Processes : <<"report", i>> \notin LockedBy(p)
  BY <1>1 DEF ReportRows
<1>4. \A v \in Visitors : drop[v] = {}
  <2>1. \A v \in Visitors : drop[v] \subseteq Filed /\ Filed \subseteq Ids
    BY DEF SharingInv, DeletionInv, Filed
  <2> QED BY <1>3, <2>1, Held
<1>5. pc[Owner] # "suppress"
  BY <1>3, Held DEF SharingInv, OwnerInv
<1>6. Types'
  <2>1. report' \in [Ids -> Visitors \cup {Nobody}]
    BY <1>1 DEF SharedRunTypeOK
  <2> QED BY <1>1, <2>1 DEF SharingInv, Types, SharedRunTypeOK
<1>7. LockInv'
  BY <1>1 DEF SharingInv, LockInv, AccessHeld, EventHeld, DropsApart
<1>8. CaptureInv'
  BY <1>1, <1>2 DEF SharingInv, CaptureInv
<1>9. DeletionInv'
  BY <1>1, <1>2, <1>4 DEF SharingInv, DeletionInv
<1>10. OwnerInv' /\ EventInv' /\ DeletedNotReported'
  BY <1>1, <1>2, <1>5 DEF SharingInv, OwnerInv, EventInv, DeletedNotReported
<1> QED BY <1>6, <1>7, <1>8, <1>9, <1>10 DEF SharingInv

LEMMA SweepEventKeeps == ASSUME SharingInv, SweepEvent PROVE SharingInv'
<1> USE Kinds
<1>1. /\ event # NoEvent /\ event.id \notin Filed /\ event' = NoEvent
      /\ \A p \in Processes : <<"event", 0>> \notin LockedBy(p)
      /\ UNCHANGED <<canonical, access, report, due, pc, target, drop, unmapped, last>> /\ SharedRunTypeOK
  BY DEF SweepEvent, EventOrphaned, EventRow, open, SharingInv, Types
<1>2. Filed' = Filed /\ NoEvent.id \notin Filed /\ ~NoEvent.suppressed
  BY <1>1 DEF Filed, NoEvent
<1>3. unmapped = {}
  BY <1>1, Held DEF SharedRunTypeOK
<1>4. \A k \in Captors : pc[k] \notin Deciding
  BY <1>1, Held
<1>5. Types'
  BY <1>1 DEF SharingInv, Types, SharedRunTypeOK
<1>6. LockInv'
  BY <1>1, <1>4 DEF SharingInv, LockInv, AccessHeld, EventHeld, DropsApart
<1>7. CaptureInv'
  BY <1>1, <1>2 DEF SharingInv, CaptureInv
<1>8. DeletionInv'
  BY <1>1, <1>2, <1>3 DEF SharingInv, DeletionInv
<1>9. EventInv'
  BY <1>1, <1>2 DEF SharingInv, EventInv
<1>10. OwnerInv' /\ DeletedNotReported'
  BY <1>1, <1>2 DEF SharingInv, OwnerInv, DeletedNotReported
<1> QED BY <1>5, <1>6, <1>7, <1>8, <1>9, <1>10 DEF SharingInv

\* The run fails, or its time is over: none of it concerns the reports.
LEMMA RunKeeps == ASSUME SharingInv, FailRun \/ RetentionDue PROVE SharingInv'
<1>1. /\ UNCHANGED <<access, report, event, pc, target, drop, unmapped, last>>
      /\ canonical' \in {"complete", "failed", "gone"} /\ (canonical' = "gone" <=> canonical = "gone")
      /\ due' \in BOOLEAN /\ SharedRunTypeOK /\ pc \in [Processes -> Steps]
  BY DEF FailRun, RetentionDue, open, SharingInv, Types, SharedRunTypeOK
<1>2. Filed' = Filed
  BY <1>1 DEF Filed
<1>3. Types'
  BY <1>1 DEF Types, SharedRunTypeOK
<1>4. LockInv'
  BY <1>1 DEF SharingInv, LockInv, AccessHeld, EventHeld, DropsApart
<1>5. CaptureInv' /\ DeletionInv'
  BY <1>1, <1>2 DEF SharingInv, CaptureInv, DeletionInv
<1>6. OwnerInv' /\ EventInv' /\ DeletedNotReported'
  BY <1>1, <1>2 DEF SharingInv, OwnerInv, EventInv, DeletedNotReported
<1> QED BY <1>3, <1>4, <1>5, <1>6 DEF SharingInv

LEMMA AbortKeeps == ASSUME SharingInv, Abort PROVE SharingInv'
<1>1. PICK p \in Processes : Rollback(p)
  BY DEF Abort, Waiting
<1> DEFINE s == IF p \in Visitors \cup {Owner} THEN "refused" ELSE "idle"
<1>2. End(p, s) /\ UNCHANGED rows
  BY <1>1 DEF Rollback, Abort
<1>3. s \in {"idle", "refused"} /\ (p \in Captors => s = "idle")
  BY Kinds
<1> HIDE DEF s
<1> QED BY <1>2, <1>3, EndsUnwritten

LEMMA StutterKeeps == ASSUME SharingInv, UNCHANGED sharingVars PROVE SharingInv'
<1>1. UNCHANGED <<canonical, access, report, event, due, pc, target, drop, unmapped, last>> /\ Filed' = Filed
  BY DEF sharingVars, Filed
<1>2. Types' /\ LockInv'
  BY <1>1 DEF SharingInv, Types, SharedRunTypeOK, LockInv, AccessHeld, EventHeld, DropsApart
<1>3. CaptureInv' /\ DeletionInv'
  BY <1>1 DEF SharingInv, CaptureInv, DeletionInv
<1>4. OwnerInv' /\ EventInv' /\ DeletedNotReported'
  BY <1>1 DEF SharingInv, OwnerInv, EventInv, DeletedNotReported
<1> QED BY <1>2, <1>3, <1>4 DEF SharingInv

-----------------------------------------------------------------------------
(* The theorems *)

LEMMA SharingInitial == SharingInit => SharingInv
<1> USE Kinds
<1> SUFFICES ASSUME SharingInit PROVE SharingInv
  OBVIOUS
<1>1. /\ canonical \in {"complete", "failed"} /\ report = [i \in Ids |-> Nobody] /\ event = NoEvent /\ due = FALSE
      /\ pc = [p \in Processes |-> "idle"] /\ target = [p \in Processes |-> Nobody]
      /\ drop = [p \in Processes |-> {}] /\ unmapped = {} /\ last = {}
  BY DEF SharingInit
<1>2. access \in [Visitors -> {"none", "live", "deleted", "removed"}]
  BY DEF SharingInit
<1>3. Filed = {} /\ ~event.suppressed /\ event.id \notin Filed
  BY <1>1 DEF Filed, NoEvent
<1>4. Types
  <2>1. pc \in [Processes -> Steps]
    BY <1>1 DEF Steps
  <2> QED BY <1>1, <1>2, <2>1 DEF Types, SharedRunTypeOK
<1>5. \A p \in Processes : pc[p] = "idle" /\ drop[p] = {}
  BY <1>1
<1>6. LockInv /\ CaptureInv /\ OwnerInv
  BY <1>1, <1>5 DEF LockInv, AccessHeld, EventHeld, DropsApart, CaptureInv, OwnerInv, Validated, Deciding
<1>7. DeletionInv /\ EventInv /\ DeletedNotReported
  BY <1>1, <1>3, <1>5 DEF DeletionInv, EventInv, DeletedNotReported
<1> QED BY <1>4, <1>6, <1>7 DEF SharingInv

LEMMA SharingInductive == SharingInv /\ [SharingNext]_sharingVars => SharingInv'
<1> SUFFICES ASSUME SharingInv, [SharingNext]_sharingVars PROVE SharingInv'
  OBVIOUS
<1>1. ASSUME NEW v \in Visitors, FindReusable(v) \/ RequestDeletion(v) \/ JoinStep(v) PROVE SharingInv'
  BY <1>1, FindKeeps, RequestKeeps, InsertKeeps, CommitAccessKeeps DEF JoinStep
<1>2. ASSUME NEW v \in Visitors, DeletionStep(v) PROVE SharingInv'
  BY <1>2, LockOwnKeeps, DeleteReportsKeeps, DeleteEventKeeps, CountKeeps, LockRunKeeps, CommitDeletionKeeps,
     CommitPurgeKeeps DEF DeletionStep
<1>3. ASSUME NEW k \in Captors, CaptureStep(k) PROVE SharingInv'
  BY <1>3, CollectKeeps, LockSourceKeeps, LockSourceAccessKeeps, ReadEventKeeps, ReadExistingKeeps,
     CommitReportKeeps DEF CaptureStep
<1>4. ASSUME NEW i \in Ids, PreviewReport(i) PROVE SharingInv'
  BY <1>4, PreviewKeeps
<1>5. CASE OwnerStep
  BY <1>5, LockReportKeeps, CommitSuppressionKeeps DEF OwnerStep
<1>6. CASE PurgeStep
  BY <1>6, LockForPurgeKeeps, DeleteRunKeeps, CommitRetentionKeeps DEF PurgeStep
<1>7. CASE SweepStep
  BY <1>7, SweepReportsKeeps, SweepEventKeeps DEF SweepStep
<1>8. CASE Abort
  BY <1>8, AbortKeeps
<1>9. CASE FailRun \/ RetentionDue
  BY <1>9, RunKeeps
<1>10. CASE Over \/ UNCHANGED sharingVars
  BY <1>10, StutterKeeps DEF Over
<1> QED BY <1>1, <1>2, <1>3, <1>4, <1>5, <1>6, <1>7, <1>8, <1>9, <1>10 DEF SharingNext

LEMMA SharingInvariant == SharingSpec => []SharingInv
<1> QED BY SharingInitial, SharingInductive, PTL DEF SharingSpec

\* The rows of the shared run and the transactions on them have their types.
THEOREM SharingTypes == SharingSpec => []SharedRunTypeOK
<1>1. SharingInv => SharedRunTypeOK
  BY DEF SharingInv, Types
<1> QED BY <1>1, SharingInvariant, PTL

\* No report quotes an access that its visitor has deleted, for any number of
\* visitors and captures (persistAutomaticFailureFeedback, deleteRunAccess).
THEOREM DeletedNeverReported == SharingSpec => []DeletedNotReported
<1>1. SharingInv => DeletedNotReported
  BY DEF SharingInv
<1> QED BY <1>1, SharingInvariant, PTL

\* However often a failure is delivered, and by however many executions at a
\* time, one report of it is filed, and none once the owner has suppressed it.
THEOREM ReportedOnce == SharingSpec => []OneReport
<1>1. SharingInv => OneReport
  <2> SUFFICES ASSUME SharingInv PROVE OneReport
    OBVIOUS
  <2>1. (\A i, j \in Filed : i = j) /\ (event.suppressed => Filed = {})
    BY DEF SharingInv, EventInv
  <2>2. CASE Filed = {}
    BY <2>2, FS_EmptySet DEF OneReport
  <2>3. CASE Filed # {}
    <3>1. PICK i \in Filed : Filed = {i}
      BY <2>1, <2>3
    <3>2. Cardinality(Filed) = 1
      BY <3>1, FS_Singleton
    <3> QED BY <2>1, <3>2 DEF OneReport
  <2> QED BY <2>2, <2>3
<1> QED BY <1>1, SharingInvariant, PTL

LEMMA KeepsSuppression ==
  ASSUME SharingInv, [SharingNext]_sharingVars, event.suppressed
  PROVE  event'.suppressed \/ access'[event.of] # "live" \/ canonical' = "gone"
<1> USE Kinds
<1>1. /\ Filed = {} /\ SharedRunTypeOK /\ event # NoEvent /\ event.of \in Visitors
  BY DEF SharingInv, Types, SharedRunTypeOK, EventInv, NoEvent
<1> SUFFICES ASSUME event' # event
             PROVE  event'.suppressed \/ access'[event.of] # "live" \/ canonical' = "gone"
  OBVIOUS
<1>2. ASSUME NEW v \in Visitors, CommitDeletion(v)
      PROVE  access'[event.of] # "live" \/ canonical' = "gone"
  <2>1. pc[v] = "commit" /\ v \in unmapped /\ access' = [access EXCEPT ![v] = "deleted"] /\ canonical' = canonical
    BY <1>2 DEF CommitDeletion, Deleted
  <2>2. drop[v] = {} /\ (v \in last => canonical = "gone") /\ (v \in last \/ event.id \in drop[v] \/ event.of = v)
    BY <1>1, <2>1 DEF SharingInv, DeletionInv
  <2> QED BY <1>1, <2>1, <2>2 DEF SharedRunTypeOK
<1>3. ASSUME NEW v \in Visitors, DeletionStep(v)
      PROVE  access'[event.of] # "live" \/ canonical' = "gone"
  BY <1>2, <1>3 DEF DeletionStep, LockOwnAccess, DeleteReports, DeleteEvent, CountAccesses, LockRun, CommitPurge, rows
<1>4. ASSUME NEW v \in Visitors, FindReusable(v) \/ RequestDeletion(v) \/ JoinStep(v) PROVE FALSE
  BY <1>4 DEF FindReusable, RequestDeletion, JoinStep, InsertAccess, CommitAccess, rows
<1>5. ASSUME NEW k \in Captors, CaptureStep(k) PROVE FALSE
  <2>1. CASE CommitReport(k)
    <3>1. pc[k] = "write"
      BY <2>1 DEF CommitReport, Reaches
    <3> QED BY <3>1, Files
  <2>2. CASE ~CommitReport(k)
    BY <1>5, <2>2 DEF CaptureStep, Collect, LockSource, LockSourceAccess, ReadEvent, ReadExisting, rows
  <2> QED BY <2>1, <2>2
<1>6. ASSUME NEW i \in Ids, PreviewReport(i) PROVE FALSE
  BY <1>6 DEF PreviewReport, rows
<1>7. CASE OwnerStep
  BY <1>7 DEF OwnerStep, LockReport, CommitSuppression, rows
<1>8. CASE PurgeStep
  BY <1>8 DEF PurgeStep, LockForPurge, DeleteRun, CommitRetention, rows
<1>9. CASE SweepStep
  BY <1>9 DEF SweepStep, SweepReports, SweepEvent, EventOrphaned
<1>10. CASE Abort \/ FailRun \/ RetentionDue \/ Over \/ UNCHANGED sharingVars
  BY <1>10 DEF Abort, FailRun, RetentionDue, Over, sharingVars, rows
<1> QED BY <1>3, <1>4, <1>5, <1>6, <1>7, <1>8, <1>9, <1>10 DEF SharingNext

\* A report that the owner has deleted (deleteFeedbackSubmission) is not filed
\* again for the same access: only the end of that access or of the run makes
\* the system forget that it was suppressed.
THEOREM SuppressionLasts == SharingSpec => SuppressionKept
<1>1. SharingInv /\ [SharingNext]_sharingVars =>
        [event.suppressed => event'.suppressed \/ access'[event.of] # "live" \/ canonical' = "gone"]_sharingVars
  BY KeepsSuppression
<1> QED BY <1>1, SharingInvariant, PTL DEF SharingSpec, SuppressionKept

-----------------------------------------------------------------------------
(* A run while it is published and afterwards, side by side.                  *)

LEMMA EitherPart == [RunNext]_allVars => [Next]_vars /\ [SharingNext]_sharingVars
BY DEF RunNext, PublicationStep, SharingStep, Stopped, allVars

\* A run stays within its types while it is published (publishManifest) and
\* while it is shared, reported and deleted afterwards.
THEOREM RunTypes == RunSpec => []RunTypeOK
<1>1. RunInit => IInv /\ SharingInv
  BY Initial, SharingInitial DEF RunInit
<1>2. IInv /\ SharingInv /\ [RunNext]_allVars => IInv' /\ SharingInv'
  BY EitherPart, Inductive, SharingInductive
<1>3. IInv /\ SharingInv => RunTypeOK
  BY DEF RunTypeOK, IInv, SharingInv, Types
<1> QED BY <1>1, <1>2, <1>3, PTL DEF RunSpec
=============================================================================
