--------------------------- MODULE ServicesProofs ---------------------------
(****************************************************************************)
(* Theorems about the four services that a run leans on: the gateway of    *)
(* writes to Apple, the catalog cache, the ledger of provider costs and    *)
(* the retrieval of a portfolio.  They share no state; each part below is  *)
(* about one of them, for any values of its constants.                     *)
(****************************************************************************)
EXTENDS MCServices, FiniteSetLemmas, TLAPS

-----------------------------------------------------------------------------
(****************************************************************************)
(* AppleWriteGateway.  A bucket is compared at one moment with what an     *)
(* exact one would allow: Worth is what it would hold now if its next      *)
(* reading were as far ahead as its last one.                              *)
(****************************************************************************)

Allowance == credit + Cost * lost + gained
Age(b) == time - (b.at - b.ahead)
Worth(b) == Lesser(Capacity, b.tokens + Age(b))
Owed == IF holder = NoWriter THEN 0 ELSE Cost

\* The stored bucket lacks the token of an open permit; the one in its
\* transaction does not.
Level ==
    /\ Age(bucket) \in Nat /\ Worth(bucket) <= Allowance + Owed
    /\ holder # NoWriter => Age(uncommitted) \in Nat /\ Worth(uncommitted) <= Allowance
HeldInv ==
    /\ holder # NoWriter => writer[holder].pc = "writing"
    /\ \A w \in Writers : writer[w].pc = "writing" => holder = w
GatewayInv == GatewayTypeOK /\ HeldInv /\ Level

-----------------------------------------------------------------------------
(* Arithmetic *)

\* The allowance is a number, and a lost session adds a token to it.
LEMMA AllowanceNumber ==
    ASSUME GatewayTypeOK
    PROVE  /\ Allowance \in Int /\ Cost * lost \in Nat /\ Cost \in Nat
           /\ Cost * (lost + 1) = Cost * lost + Cost
  <1>1. Cost \in Nat /\ lost \in Nat /\ credit \in Int /\ gained \in Nat
    BY GatewayAssumption DEF GatewayTypeOK
  <1>2. Cost * lost \in Nat
    BY <1>1
  <1>3. Cost * (lost + 1) = Cost * lost + Cost
    BY <1>1
  <1> QED
    BY <1>1, <1>2, <1>3 DEF Allowance

\* A refill gives at most what the bucket is worth, and what the reading is
\* further ahead than the one before.
LEMMA RefillBounded ==
    ASSUME GatewayTypeOK, Age(bucket) \in Nat, NEW ahead \in Offsets
    PROVE  /\ Refilled(ahead) \in BucketRows
           /\ Refilled(ahead).at = time + ahead /\ Refilled(ahead).ahead = ahead
           /\ Elapsed(bucket.ahead, ahead) \in Nat
           /\ Refilled(ahead).tokens <= Worth(bucket) + Elapsed(bucket.ahead, ahead)
  <1>1. ahead \in Nat /\ time \in Nat /\ Capacity \in Nat
    BY GatewayAssumption DEF GatewayTypeOK
  <1>2. bucket.tokens \in 0..Capacity /\ bucket.at \in Nat /\ bucket.ahead \in Nat
    BY DEF GatewayTypeOK, BucketRows
  <1>3. Elapsed(bucket.at, time + ahead) \in Nat /\ Elapsed(bucket.ahead, ahead) \in Nat
    BY <1>1, <1>2 DEF Elapsed
  <1>4. Elapsed(bucket.at, time + ahead) <= Age(bucket) + Elapsed(bucket.ahead, ahead)
    BY <1>1, <1>2 DEF Elapsed, Age
  <1>5. Refilled(ahead) \in BucketRows
    BY <1>1, <1>2, <1>3 DEF Refilled, BucketRows, Lesser
  <1>6. Refilled(ahead).tokens <= Worth(bucket) + Elapsed(bucket.ahead, ahead)
    BY <1>1, <1>2, <1>3, <1>4 DEF Refilled, Worth, Lesser
  <1> QED
    BY <1>3, <1>5, <1>6 DEF Refilled

\* A bucket that has just been computed is worth its tokens.
LEMMA FreshWorth ==
    ASSUME time \in Nat, NEW b \in BucketRows, b.at = time + b.ahead
    PROVE  Age(b) = 0 /\ Worth(b) = b.tokens
  BY GatewayAssumption DEF Age, Worth, Lesser, BucketRows

\* The worth of a bucket is not negative.
LEMMA WorthNatural ==
    ASSUME NEW b \in BucketRows, Age(b) \in Nat
    PROVE  Worth(b) \in Nat
  BY GatewayAssumption DEF Worth, Lesser, BucketRows

-----------------------------------------------------------------------------
(* The invariant holds initially, and every step keeps it. *)

LEMMA GatewayInitial == GatewayInit => GatewayInv
  <1> SUFFICES ASSUME GatewayInit PROVE GatewayInv
    OBVIOUS
  <1>1. FullBucket \in BucketRows
    BY GatewayAssumption DEF FullBucket, BucketRows
  <1>2. GatewayTypeOK
    BY <1>1, GatewayAssumption DEF GatewayInit, GatewayTypeOK, WriterRows, IdleWriter
  <1>3. HeldInv
    BY DEF GatewayInit, HeldInv, IdleWriter
  <1>4. Cost * 0 = 0
    BY GatewayAssumption
  <1>5. Level
    BY <1>4, GatewayAssumption DEF GatewayInit, Level, Age, Worth, Lesser, Owed, Allowance, FullBucket
  <1> QED
    BY <1>2, <1>3, <1>5 DEF GatewayInv

\* A step that moves writers and leaves the bucket and the lock alone.
LEMMA WriterMoves ==
    ASSUME GatewayInv, NEW w \in Writers, NEW row \in WriterRows,
           row.pc # "writing", writer[w].pc # "writing",
           writer' = [writer EXCEPT ![w] = row],
           UNCHANGED <<time, bucket, uncommitted, holder, credit, gained, lost>>
    PROVE  GatewayInv'
  <1>1. GatewayTypeOK'
    BY DEF GatewayInv, GatewayTypeOK
  <1>2. HeldInv'
    BY GatewayAssumption DEF GatewayInv, GatewayTypeOK, HeldInv, NoWriter
  <1>3. Level'
    BY DEF GatewayInv, Level, Age, Worth, Owed, Allowance
  <1> QED
    BY <1>1, <1>2, <1>3 DEF GatewayInv

LEMMA Asks == ASSUME GatewayInv, NEW w \in Writers, AskPermit(w) PROVE GatewayInv'
  <1>1. PICK ahead \in Offsets :
          writer' = [writer EXCEPT ![w] = [pc |-> "asking", deadline |-> time + ahead + LockWait, wake |-> 0]]
    BY DEF AskPermit
  <1>2. [pc |-> "asking", deadline |-> time + ahead + LockWait, wake |-> 0] \in WriterRows
    BY GatewayAssumption DEF WriterRows, GatewayInv, GatewayTypeOK
  <1> QED
    BY <1>1, <1>2, WriterMoves DEF AskPermit

LEMMA Permits == ASSUME GatewayInv, NEW w \in Writers, Permit(w) PROVE GatewayInv'
  <1>1. PICK ahead \in Offsets :
          /\ Refilled(ahead).tokens >= Cost
          /\ uncommitted' = [Refilled(ahead) EXCEPT !.tokens = @ - Cost]
          /\ gained' = gained + Elapsed(bucket.ahead, ahead)
    BY DEF Permit, Gains
  <1> DEFINE r == Refilled(ahead)
             g == Elapsed(bucket.ahead, ahead)
  <1>2. /\ GatewayTypeOK /\ Age(bucket) \in Nat /\ holder = NoWriter
        /\ Worth(bucket) <= Allowance
    BY AllowanceNumber DEF GatewayInv, Permit, Level, Owed
  <1>3. r \in BucketRows /\ r.at = time + ahead /\ r.ahead = ahead /\ g \in Nat /\ r.tokens <= Worth(bucket) + g
    BY <1>2, RefillBounded
  <1>4. /\ uncommitted' \in BucketRows /\ uncommitted'.tokens = r.tokens - Cost
        /\ uncommitted'.at = time + ahead /\ uncommitted'.ahead = ahead
    BY <1>1, <1>3, GatewayAssumption DEF BucketRows
  <1>5. /\ time' = time /\ bucket' = bucket /\ lost' = lost /\ holder' = w /\ credit' = credit - Cost
        /\ writer' = [writer EXCEPT ![w] = [IdleWriter EXCEPT !.pc = "writing"]]
    BY DEF Permit
  <1>6. GatewayTypeOK'
    BY <1>1, <1>2, <1>3, <1>4, <1>5, GatewayAssumption DEF GatewayTypeOK, WriterRows, IdleWriter
  <1>7. HeldInv'
    BY <1>2, <1>5, GatewayAssumption DEF GatewayInv, HeldInv, GatewayTypeOK, IdleWriter, NoWriter
  <1>8. Allowance' = Allowance - Cost + g /\ Allowance \in Int /\ Cost \in Nat /\ Allowance' \in Int
    BY <1>1, <1>2, <1>3, <1>5, AllowanceNumber DEF Allowance, GatewayTypeOK
  <1>9. Age(bucket)' = Age(bucket) /\ Worth(bucket)' = Worth(bucket) /\ Worth(bucket) \in Nat
    BY <1>2, <1>5, WorthNatural DEF Age, Worth, GatewayTypeOK
  <1>10. Age(uncommitted)' = 0 /\ Worth(uncommitted)' = r.tokens - Cost
    BY <1>3, <1>4, <1>5, <1>2, GatewayAssumption DEF Age, Worth, Lesser, BucketRows, GatewayTypeOK
  <1>11. holder' # NoWriter /\ Owed' = Cost
    BY <1>5, GatewayAssumption DEF Owed, NoWriter
  <1>12. r.tokens \in Nat
    BY <1>3, GatewayAssumption DEF BucketRows
  <1>13. Level'
    BY <1>2, <1>3, <1>8, <1>9, <1>10, <1>11, <1>12 DEF Level
  <1> QED
    BY <1>6, <1>7, <1>13 DEF GatewayInv

LEMMA RunsShort == ASSUME GatewayInv, NEW w \in Writers, Short(w) PROVE GatewayInv'
  <1>1. PICK ahead \in Offsets :
          /\ Refilled(ahead).tokens < Cost
          /\ bucket' = Refilled(ahead)
          /\ gained' = gained + Elapsed(bucket.ahead, ahead)
          /\ \E now \in {time + a : a \in Offsets} :
               writer' = [writer EXCEPT ![w] =
                   IF now + TokenWait(Refilled(ahead).tokens) > @.deadline THEN IdleWriter
                   ELSE [@ EXCEPT !.pc = "waiting", !.wake = time + TokenWait(Refilled(ahead).tokens)]]
    BY DEF Short, Gains
  <1> DEFINE r == Refilled(ahead)
             g == Elapsed(bucket.ahead, ahead)
             waits == [writer[w] EXCEPT !.pc = "waiting", !.wake = time + TokenWait(r.tokens)]
  <1>2. /\ GatewayTypeOK /\ HeldInv /\ Age(bucket) \in Nat /\ holder = NoWriter
        /\ Worth(bucket) <= Allowance
    BY AllowanceNumber DEF GatewayInv, Short, Level, Owed
  <1>3. r \in BucketRows /\ r.at = time + ahead /\ r.ahead = ahead /\ g \in Nat /\ r.tokens <= Worth(bucket) + g
    BY <1>2, RefillBounded
  <1>4. r.tokens \in Nat /\ TokenWait(r.tokens) \in Nat
    BY <1>1, <1>3, GatewayAssumption DEF BucketRows, TokenWait
  <1>5. IdleWriter \in WriterRows /\ waits \in WriterRows
    <2>1. writer[w] \in WriterRows /\ time + TokenWait(r.tokens) \in Nat
      BY <1>2, <1>4 DEF GatewayTypeOK
    <2> HIDE DEF r
    <2> QED
      BY <2>1 DEF WriterRows, IdleWriter
  <1>6. writer' = [writer EXCEPT ![w] = IdleWriter] \/ writer' = [writer EXCEPT ![w] = waits]
    BY <1>1
  <1>7. /\ time' = time /\ uncommitted' = uncommitted /\ holder' = NoWriter
        /\ credit' = credit /\ lost' = lost
    BY <1>2 DEF Short
  <1>8. GatewayTypeOK'
    BY <1>1, <1>2, <1>3, <1>5, <1>6, <1>7 DEF GatewayTypeOK
  <1>9. HeldInv'
    BY <1>2, <1>5, <1>6, <1>7 DEF HeldInv, GatewayTypeOK, WriterRows, IdleWriter
  <1>10. Allowance' = Allowance + g /\ Allowance \in Int
    BY <1>1, <1>2, <1>3, <1>7, AllowanceNumber DEF Allowance, GatewayTypeOK
  <1>11. Age(bucket)' = 0 /\ Worth(bucket)' = r.tokens
    BY <1>1, <1>2, <1>3, <1>7, GatewayAssumption DEF Age, Worth, Lesser, BucketRows, GatewayTypeOK
  <1>12. Worth(bucket) \in Nat
    BY <1>2, WorthNatural DEF GatewayTypeOK
  <1>13. Level'
    BY <1>2, <1>3, <1>4, <1>7, <1>10, <1>11, <1>12 DEF Level, Owed
  <1> QED
    BY <1>8, <1>9, <1>13 DEF GatewayInv

LEMMA Wakes == ASSUME GatewayInv, NEW w \in Writers, Wake(w) PROVE GatewayInv'
  <1>1. [writer[w] EXCEPT !.pc = "asking", !.wake = 0] \in WriterRows
    BY DEF GatewayInv, GatewayTypeOK, WriterRows
  <1>2. writer' = [writer EXCEPT ![w] = [writer[w] EXCEPT !.pc = "asking", !.wake = 0]]
    BY DEF Wake, GatewayInv, GatewayTypeOK
  <1>3. [writer[w] EXCEPT !.pc = "asking", !.wake = 0].pc # "writing"
    BY DEF GatewayInv, GatewayTypeOK, WriterRows
  <1> QED
    BY <1>1, <1>2, <1>3, WriterMoves DEF Wake

LEMMA Leaves ==
    ASSUME GatewayInv, NEW w \in Writers, StaysBusy(w) \/ PermitDenied(w) \/ EndDetached(w)
    PROVE  GatewayInv'
  <1>1. IdleWriter \in WriterRows /\ IdleWriter.pc # "writing"
    BY DEF WriterRows, IdleWriter
  <1> QED
    BY <1>1, WriterMoves DEF StaysBusy, PermitDenied, EndDetached

LEMMA Returns == ASSUME GatewayInv, NEW w \in Writers, ReleasePermit(w) PROVE GatewayInv'
  <1>1. GatewayTypeOK /\ HeldInv /\ Level /\ holder = w /\ holder # NoWriter
    BY GatewayAssumption DEF GatewayInv, ReleasePermit, HeldInv, NoWriter
  <1>2. FullBucket \in BucketRows /\ IdleWriter \in WriterRows
    BY GatewayAssumption DEF FullBucket, BucketRows, IdleWriter, WriterRows
  <1>3. GatewayTypeOK'
    BY <1>1, <1>2 DEF GatewayTypeOK, ReleasePermit
  <1>4. HeldInv'
    BY <1>1 DEF HeldInv, GatewayTypeOK, ReleasePermit, IdleWriter
  <1>5. /\ Age(bucket)' = Age(uncommitted) /\ Worth(bucket)' = Worth(uncommitted)
        /\ Allowance' = Allowance /\ Owed' = 0 /\ holder' = NoWriter
    BY DEF ReleasePermit, Age, Worth, Allowance, Owed
  <1>6. Level'
    BY <1>1, <1>5, AllowanceNumber DEF Level
  <1> QED
    BY <1>3, <1>4, <1>6 DEF GatewayInv

LEMMA Loses == ASSUME GatewayInv, NEW w \in Writers, LosePermit(w) PROVE GatewayInv'
  <1>1. GatewayTypeOK /\ HeldInv /\ Level /\ holder = w /\ holder # NoWriter
    BY GatewayAssumption DEF GatewayInv, LosePermit, HeldInv, NoWriter
  <1>2. FullBucket \in BucketRows
    BY GatewayAssumption DEF FullBucket, BucketRows
  <1>3. GatewayTypeOK'
    BY <1>1, <1>2 DEF GatewayTypeOK, LosePermit, WriterRows
  <1>4. HeldInv'
    BY <1>1 DEF HeldInv, GatewayTypeOK, LosePermit
  <1>5. Age(bucket)' = Age(bucket) /\ Worth(bucket)' = Worth(bucket)
    BY DEF LosePermit, Age, Worth
  <1>6. Allowance' = Allowance + Cost /\ Allowance \in Int /\ Cost \in Nat
    BY <1>1, AllowanceNumber DEF LosePermit, Allowance, GatewayTypeOK
  <1>7. Owed = Cost /\ Owed' = 0 /\ holder' = NoWriter
    BY <1>1 DEF LosePermit, Owed
  <1>8. Worth(bucket) \in Nat
    BY <1>1, WorthNatural DEF Level, GatewayTypeOK
  <1>9. Level'
    BY <1>1, <1>5, <1>6, <1>7, <1>8 DEF Level
  <1> QED
    BY <1>3, <1>4, <1>9 DEF GatewayInv

LEMMA TimeGoesOn == ASSUME GatewayInv, TimePasses PROVE GatewayInv'
  <1>1. GatewayTypeOK /\ HeldInv /\ Level /\ Capacity \in Nat
    BY GatewayAssumption DEF GatewayInv
  <1>2. GatewayTypeOK'
    BY <1>1 DEF GatewayTypeOK, TimePasses, Lesser
  <1>3. HeldInv'
    BY <1>1 DEF HeldInv, TimePasses
  <1>4. /\ bucket' = bucket /\ uncommitted' = uncommitted /\ holder' = holder
        /\ Owed' = Owed /\ time' = time + 1
    BY DEF TimePasses, Owed
  <1>5. Owed \in Nat /\ Allowance \in Int /\ Allowance' \in Int
    BY <1>1, <1>2, AllowanceNumber, GatewayAssumption DEF Owed, Allowance, GatewayTypeOK, TimePasses
  <1>6. Allowance' = Allowance + 1 \/ Allowance' >= Capacity
    BY <1>1, AllowanceNumber DEF Allowance, GatewayTypeOK, TimePasses, Lesser
  <1>7. ASSUME NEW b \in BucketRows, Age(b) \in Nat, NEW n \in Nat, Worth(b) <= Allowance + n
        PROVE  /\ time' - (b.at - b.ahead) \in Nat
               /\ Lesser(Capacity, b.tokens + (time' - (b.at - b.ahead))) <= Allowance' + n
    <2>1. b.tokens \in Nat /\ b.at \in Nat /\ b.ahead \in Nat /\ time \in Nat
      BY <1>1, <1>7 DEF BucketRows, GatewayTypeOK
    <2>2. time' - (b.at - b.ahead) = Age(b) + 1
      BY <1>4, <2>1 DEF Age
    <2>3. Worth(b) <= Allowance + n /\ Worth(b) = Lesser(Capacity, b.tokens + Age(b))
      BY <1>7 DEF Worth
    <2> QED
      BY <1>1, <1>5, <1>6, <1>7, <2>1, <2>2, <2>3 DEF Lesser
  <1>8. Age(bucket)' \in Nat /\ Worth(bucket)' <= Allowance' + Owed'
    BY <1>1, <1>4, <1>5, <1>7 DEF Level, Age, Worth, GatewayTypeOK
  <1>9. \A x \in Int : x + 0 = x
    OBVIOUS
  <1>10. holder' # NoWriter => Age(uncommitted)' \in Nat /\ Worth(uncommitted)' <= Allowance'
    BY <1>1, <1>4, <1>5, <1>7, <1>9 DEF Level, Age, Worth, GatewayTypeOK
  <1>11. Level'
    BY <1>8, <1>10 DEF Level
  <1> QED
    BY <1>2, <1>3, <1>11 DEF GatewayInv

LEMMA GatewayInductive == GatewayInv /\ [GatewayNext]_gatewayVars => GatewayInv'
  <1> SUFFICES ASSUME GatewayInv, [GatewayNext]_gatewayVars PROVE GatewayInv'
    OBVIOUS
  <1>1. CASE UNCHANGED gatewayVars
    BY <1>1 DEF gatewayVars, GatewayInv, GatewayTypeOK, HeldInv, Level, Age, Worth, Allowance, Owed
  <1>2. CASE GatewayNext
    BY <1>2, Asks, Permits, RunsShort, Wakes, Leaves, Returns, Loses, TimeGoesOn DEF GatewayNext
  <1> QED
    BY <1>1, <1>2

-----------------------------------------------------------------------------

\* Every variable of the gateway keeps its type; the bucket never holds more
\* than its capacity and no token is taken that it does not have.
THEOREM GatewayTypes == GatewaySpec => []GatewayTypeOK
  <1>1. GatewayInv => GatewayTypeOK
    BY DEF GatewayInv
  <1> QED
    BY <1>1, GatewayInitial, GatewayInductive, PTL DEF GatewaySpec

\* Writes are never faster than a bucket with an exact clock allows, but for
\* lost sessions and for clocks that were further ahead.
THEOREM WritesLimited == GatewaySpec => []RateHeld
  <1>1. GatewayInv => RateHeld
    <2> SUFFICES ASSUME GatewayInv PROVE RateHeld
      OBVIOUS
    <2>1. Allowance \in Int
      BY AllowanceNumber DEF GatewayInv
    <2>2. CASE holder = NoWriter
      BY <2>1, <2>2, WorthNatural DEF GatewayInv, Level, Owed, GatewayTypeOK, RateHeld, Allowance
    <2>3. CASE holder # NoWriter
      BY <2>1, <2>3, WorthNatural DEF GatewayInv, Level, GatewayTypeOK, RateHeld, Allowance
    <2> QED
      BY <2>2, <2>3
  <1> QED
    BY <1>1, GatewayInitial, GatewayInductive, PTL DEF GatewaySpec

-----------------------------------------------------------------------------
(****************************************************************************)
(* CatalogCache.  The rows of a key keep their types, which bounds the     *)
(* polls of a request by its wait; whoever joins a call waits for one that *)
(* is under way; and a lease under which an entry is filled is lost by its *)
(* expiry only.  A request that asks the provider holds a lease that lasts *)
(* beyond its next renewal, or was let through by a failure, so that the   *)
(* calls at one moment are counted by the failures; and a lease outlives   *)
(* the last call by its duration at most, which is less than the wait of a *)
(* request that gives up.                                                  *)
(****************************************************************************)

(* The inductive invariant *)

\* A request sleeps while polls are left to it.
WaitingInv == \A c \in Requests :
    /\ request[c].pc = "sleeping" => request[c].waited < WaitTime
    /\ request[c].pc \in {"idle", "purging", "joining", "following", "acquiring"} => request[c].waited = 0

\* The call that a process lists is one of its requests, and under way; and a
\* request follows one of its own process, so that both die together.
Calling(c) == request[c].pc \in {"fetching", "storing"}
InflightInv == \A p \in Processes :
    inflight[p] # Nobody => Calling(inflight[p]) /\ ProcessOf[inflight[p]] = p
FollowInv == \A c \in Requests :
    request[c].pc = "following" =>
        /\ request[c].leader \in Requests /\ Calling(request[c].leader)
        /\ ProcessOf[request[c].leader] = ProcessOf[c]

CacheInv == CacheTypeOK /\ WaitingInv /\ InflightInv /\ FollowInv

-----------------------------------------------------------------------------
(* Rows *)

LEMMA CacheRows ==
  ASSUME CacheTypeOK
  PROVE  /\ \A c \in Requests : request[c] \in RequestRows
         /\ \A p \in Processes : inflight[p] \in Requests \cup {Nobody}
         /\ \A c \in Requests : ProcessOf[c] \in Processes
BY CacheAssumption DEF CacheTypeOK

LEMMA EndedRow ==
  /\ NewRequest \in RequestRows /\ NewRequest.pc = "idle" /\ NewRequest.waited = 0
  /\ \A pc \in {"idle", "served", "failed", "busy", "releasing"}, ok \in BOOLEAN :
        /\ Ended(pc) \in RequestRows /\ Ended(pc).pc = pc /\ Ended(pc).waited = 0
        /\ [Ended(pc) EXCEPT !.ok = ok] \in RequestRows
        /\ [Ended(pc) EXCEPT !.ok = ok].pc = pc /\ [Ended(pc) EXCEPT !.ok = ok].waited = 0
<1>1. 0 \in 0..WaitTime /\ 0 \in 0..LeaseTime
  BY CacheAssumption
<1>2. NewRequest \in RequestRows /\ NewRequest.pc = "idle" /\ NewRequest.waited = 0
  BY <1>1 DEF NewRequest, RequestRows
<1>3. ASSUME NEW pc \in {"idle", "served", "failed", "busy", "releasing"}
      PROVE  Ended(pc) \in RequestRows /\ Ended(pc).pc = pc /\ Ended(pc).waited = 0
  <2> HIDE DEF NewRequest
  <2> QED
    BY <1>2 DEF Ended, RequestRows
<1>4. ASSUME NEW pc \in {"idle", "served", "failed", "busy", "releasing"}, NEW ok \in BOOLEAN
      PROVE  /\ [Ended(pc) EXCEPT !.ok = ok] \in RequestRows
             /\ [Ended(pc) EXCEPT !.ok = ok].pc = pc /\ [Ended(pc) EXCEPT !.ok = ok].waited = 0
  BY <1>3 DEF RequestRows
<1> QED
  BY <1>2, <1>3, <1>4

LEMMA GrantedRow ==
  ASSUME NEW c \in Requests
  PROVE  Granted(c) \in FillLeaseRows /\ Granted(c).owner = c
BY CacheAssumption DEF Granted, FillLeaseRows

\* A step of one request, which leaves the others and the calls under way
\* alone, keeps the invariant when its new row is one that does not call or
\* called already.
LEMMA OneRequest ==
  ASSUME CacheInv, NEW c \in Requests, NEW row \in RequestRows,
         request' = [request EXCEPT ![c] = row],
         Calling(c) => row.pc \in {"fetching", "storing"},
         row.pc # "following",
         row.pc = "sleeping" => row.waited < WaitTime,
         row.pc \in {"idle", "purging", "joining", "acquiring"} => row.waited = 0,
         UNCHANGED inflight
  PROVE  request' \in [Requests -> RequestRows] /\ WaitingInv' /\ InflightInv' /\ FollowInv'
<1>1. CacheTypeOK
  BY DEF CacheInv
<1>2. request' \in [Requests -> RequestRows]
  BY <1>1 DEF CacheTypeOK
<1>3. request'[c] = row /\ \A d \in Requests \ {c} : request'[d] = request[d]
  BY <1>1 DEF CacheTypeOK
<1>4. \A d \in Requests : Calling(d) => request'[d].pc \in {"fetching", "storing"}
  BY <1>3 DEF Calling
<1>5. WaitingInv'
  BY <1>3 DEF CacheInv, WaitingInv
<1>6. InflightInv'
  BY <1>1, <1>4, CacheRows DEF CacheInv, InflightInv, Calling
<1>7. FollowInv'
  BY <1>3, <1>4 DEF CacheInv, FollowInv, Calling
<1> QED
  BY <1>2, <1>5, <1>6, <1>7

\* A request that becomes the call of its process.
LEMMA FetchRequest ==
  ASSUME CacheInv, NEW c \in Requests, ~Calling(c), NEW leased \in BOOLEAN, Fetch(c, leased)
  PROVE  /\ request' \in [Requests -> RequestRows]
         /\ inflight' \in [Processes -> Requests \cup {Nobody}]
         /\ WaitingInv' /\ InflightInv' /\ FollowInv'
<1> DEFINE row == [request[c] EXCEPT !.pc = "fetching", !.leased = leased, !.waited = 0]
<1>1. CacheTypeOK /\ request[c] \in RequestRows /\ ProcessOf[c] \in Processes
  BY CacheRows DEF CacheInv
<1>2. row \in RequestRows /\ row.pc = "fetching"
  <2>1. 0 \in 0..WaitTime
    BY CacheAssumption
  <2> QED
    BY <1>1, <2>1 DEF RequestRows
<1>3. request' = [request EXCEPT ![c] = row] /\ inflight' = [inflight EXCEPT ![ProcessOf[c]] = c]
  BY DEF Fetch
<1> HIDE DEF row
<1>4. request' \in [Requests -> RequestRows] /\ inflight' \in [Processes -> Requests \cup {Nobody}]
  BY <1>1, <1>2, <1>3 DEF CacheTypeOK
<1>5. request'[c] = row /\ \A d \in Requests \ {c} : request'[d] = request[d]
  BY <1>1, <1>3 DEF CacheTypeOK
<1>6. inflight'[ProcessOf[c]] = c /\ \A p \in Processes \ {ProcessOf[c]} : inflight'[p] = inflight[p]
  BY <1>1, <1>3 DEF CacheTypeOK
<1>7. \A d \in Requests : Calling(d) => request'[d].pc \in {"fetching", "storing"}
  BY <1>2, <1>5 DEF Calling
<1>8. WaitingInv'
  BY <1>2, <1>5 DEF CacheInv, WaitingInv
<1>9. InflightInv'
  BY <1>1, <1>2, <1>5, <1>6, <1>7, CacheRows DEF CacheInv, InflightInv, Calling
<1>10. FollowInv'
  BY <1>2, <1>5, <1>7 DEF CacheInv, FollowInv, Calling
<1> QED
  BY <1>4, <1>8, <1>9, <1>10

-----------------------------------------------------------------------------
(* Steps of a request *)

LEMMA LookKeeps ==
  ASSUME CacheInv, NEW c \in Requests, Look(c) \/ LookFails(c)
  PROVE  CacheInv'
<1>1. CacheTypeOK /\ request[c] \in RequestRows /\ request[c].pc = "idle" /\ request[c].waited = 0
  BY CacheRows DEF CacheInv, Look, LookFails, WaitingInv
<1>2. PICK row : /\ request' = [request EXCEPT ![c] = row]
                 /\ \/ row = Ended("served")
                    \/ \E pc \in {"purging", "joining"} : row = [request[c] EXCEPT !.pc = pc]
  BY DEF Look, LookFails, End, Become
<1>3. row \in RequestRows /\ row.pc \in {"served", "purging", "joining"} /\ row.waited = 0
  <2>1. ASSUME NEW pc \in {"purging", "joining"}, row = [request[c] EXCEPT !.pc = pc]
        PROVE  row \in RequestRows /\ row.pc = pc /\ row.waited = 0
    BY <1>1, <2>1 DEF RequestRows
  <2> QED
    BY <1>2, <2>1, EndedRow
<1>4. UNCHANGED <<entry, fillLease, inflight, renewal, sinceFill, deaths>> /\ faults' \in Nat
  BY <1>1 DEF Look, LookFails, Faulty, CacheTypeOK
<1>5. request' \in [Requests -> RequestRows] /\ WaitingInv' /\ InflightInv' /\ FollowInv'
  BY <1>1, <1>2, <1>3, <1>4, OneRequest DEF Calling
<1> QED
  BY <1>1, <1>4, <1>5 DEF CacheInv, CacheTypeOK

LEMMA PurgeKeeps ==
  ASSUME CacheInv, NEW c \in Requests, Purge(c)
  PROVE  CacheInv'
<1> DEFINE row == [request[c] EXCEPT !.pc = "joining"]
<1>1. CacheTypeOK /\ request[c] \in RequestRows /\ request[c].pc = "purging" /\ request[c].waited = 0
  BY CacheRows DEF CacheInv, Purge, WaitingInv
<1>2. row \in RequestRows /\ row.pc = "joining" /\ row.waited = 0
  BY <1>1 DEF RequestRows
<1>3. /\ UNCHANGED <<fillLease, inflight, renewal, sinceFill, faults, deaths>> /\ entry' \in EntryKinds
      /\ request' = [request EXCEPT ![c] = row]
  BY DEF Purge, Become, EntryKinds
<1>4. request' \in [Requests -> RequestRows] /\ WaitingInv' /\ InflightInv' /\ FollowInv'
  BY <1>1, <1>2, <1>3, OneRequest DEF Calling
<1> QED
  BY <1>1, <1>3, <1>4 DEF CacheInv, CacheTypeOK

\* The one step that begins to follow: its process lists a call under way.
LEMMA JoinKeeps ==
  ASSUME CacheInv, NEW c \in Requests, Join(c)
  PROVE  CacheInv'
<1> DEFINE leader == inflight[ProcessOf[c]]
           row == [request[c] EXCEPT !.pc = IF leader = Nobody THEN "acquiring" ELSE "following",
                                     !.leader = leader]
<1>1. /\ CacheTypeOK /\ request[c] \in RequestRows /\ request[c].pc = "joining" /\ request[c].waited = 0
      /\ ProcessOf[c] \in Processes /\ leader \in Requests \cup {Nobody}
  BY CacheRows DEF CacheInv, Join, WaitingInv
<1>2. UNCHANGED <<entry, fillLease, inflight, renewal, sinceFill, faults, deaths>>
      /\ request' = [request EXCEPT ![c] = row]
  BY DEF Join
<1>3. /\ row \in RequestRows /\ row.waited = 0 /\ row.pc \in {"acquiring", "following"}
      /\ row.pc = "following" => row.leader = leader /\ leader # Nobody
  BY <1>1 DEF RequestRows
<1>4. leader # Nobody => leader \in Requests /\ Calling(leader) /\ ProcessOf[leader] = ProcessOf[c] /\ leader # c
  BY <1>1 DEF CacheInv, InflightInv, Calling
<1> HIDE DEF row, leader
<1>5. request' \in [Requests -> RequestRows]
  BY <1>1, <1>2, <1>3 DEF CacheTypeOK
<1>6. request'[c] = row /\ \A d \in Requests \ {c} : request'[d] = request[d]
  BY <1>1, <1>2 DEF CacheTypeOK
<1>7. \A d \in Requests : Calling(d) => d # c /\ request'[d].pc \in {"fetching", "storing"}
  BY <1>1, <1>6 DEF Calling
<1>8. WaitingInv'
  BY <1>3, <1>6 DEF CacheInv, WaitingInv
<1>9. InflightInv'
  BY <1>1, <1>2, <1>7, CacheRows DEF CacheInv, InflightInv, Calling
<1>10. FollowInv'
  BY <1>3, <1>4, <1>6, <1>7 DEF CacheInv, FollowInv, Calling
<1> QED
  BY <1>1, <1>2, <1>5, <1>8, <1>9, <1>10 DEF CacheInv, CacheTypeOK

LEMMA AcquireKeeps ==
  ASSUME CacheInv, NEW c \in Requests, Acquire(c) \/ Retry(c)
  PROVE  CacheInv'
<1>1. CacheTypeOK /\ request[c] \in RequestRows /\ ~Calling(c)
  BY CacheRows DEF CacheInv, Acquire, Retry, Calling
<1>2. UNCHANGED <<entry, renewal, sinceFill, faults, deaths>>
  BY DEF Acquire, Retry
<1>3. CASE Obtains(c)
  <2>1. fillLease' = Granted(c) /\ Fetch(c, TRUE)
    BY <1>3 DEF Acquire, Retry
  <2> QED
    BY <1>1, <1>2, <2>1, GrantedRow, FetchRequest DEF CacheInv, CacheTypeOK
<1>4. CASE ~Obtains(c)
  <2>1. PICK pc \in {"sleeping", "busy"} :
          /\ request' = [request EXCEPT ![c] = [request[c] EXCEPT !.pc = pc]]
          /\ pc = "sleeping" => request[c].waited < WaitTime
    <3>1. CASE Acquire(c)
      <4>1. request[c].waited = 0 /\ 0 < WaitTime
        BY <3>1, CacheAssumption DEF Acquire, CacheInv, WaitingInv
      <4> QED
        BY <1>4, <3>1, <4>1 DEF Acquire, Become
    <3>2. CASE Retry(c)
      <4>1. request[c].waited >= WaitTime \/ request[c].waited < WaitTime
        BY <1>1, CacheAssumption DEF RequestRows
      <4> QED
        BY <1>4, <3>2, <4>1 DEF Retry, Become, Polls
    <3> QED
      BY <3>1, <3>2
  <2> DEFINE row == [request[c] EXCEPT !.pc = pc]
  <2>2. row \in RequestRows /\ row.pc = pc /\ row.waited = request[c].waited
    BY <1>1, <2>1 DEF RequestRows
  <2>3. UNCHANGED <<fillLease, inflight>>
    BY <1>4 DEF Acquire, Retry
  <2> HIDE DEF row
  <2>4. request' = [request EXCEPT ![c] = row]
    BY <2>1 DEF row
  <2>5. request' \in [Requests -> RequestRows] /\ WaitingInv' /\ InflightInv' /\ FollowInv'
    BY <1>1, <2>1, <2>2, <2>3, <2>4, OneRequest
  <2> QED
    BY <1>1, <1>2, <2>3, <2>5 DEF CacheInv, CacheTypeOK
<1> QED
  BY <1>3, <1>4

LEMMA PollKeeps ==
  ASSUME CacheInv, NEW c \in Requests, Poll(c) \/ AbortWait(c)
  PROVE  CacheInv'
<1>1. CacheTypeOK /\ request[c] \in RequestRows /\ ~Calling(c)
  BY CacheRows DEF CacheInv, Poll, AbortWait, Calling
<1>2. PICK row : /\ request' = [request EXCEPT ![c] = row]
                 /\ row \in {Ended("served"), Ended("failed"), [request[c] EXCEPT !.pc = "retrying"]}
  BY DEF Poll, AbortWait, End, Become
<1>3. row \in RequestRows /\ row.pc \in {"served", "failed", "retrying"}
  <2>1. CASE row = [request[c] EXCEPT !.pc = "retrying"]
    BY <1>1, <2>1 DEF RequestRows
  <2> QED
    BY <1>2, <2>1, EndedRow
<1>4. UNCHANGED <<entry, fillLease, inflight, renewal, sinceFill, faults, deaths>>
  BY DEF Poll, AbortWait
<1>5. request' \in [Requests -> RequestRows] /\ WaitingInv' /\ InflightInv' /\ FollowInv'
  BY <1>1, <1>2, <1>3, <1>4, OneRequest
<1> QED
  BY <1>1, <1>4, <1>5 DEF CacheInv, CacheTypeOK

LEMMA UnleasedKeeps ==
  ASSUME CacheInv, NEW c \in Requests, ProceedUnleased(c)
  PROVE  CacheInv'
<1>1. CacheTypeOK /\ ~Calling(c) /\ Fetch(c, FALSE)
  BY DEF CacheInv, ProceedUnleased, Calling
<1>2. UNCHANGED <<entry, fillLease, renewal, sinceFill, deaths>> /\ faults' \in Nat
  BY <1>1 DEF ProceedUnleased, Faulty, CacheTypeOK
<1> QED
  BY <1>1, <1>2, FetchRequest DEF CacheInv, CacheTypeOK

LEMMA AnsweredKeeps ==
  ASSUME CacheInv, NEW c \in Requests, Answered(c)
  PROVE  CacheInv'
<1> DEFINE row == [request[c] EXCEPT !.pc = "storing"]
<1>1. CacheTypeOK /\ request[c] \in RequestRows
  BY CacheRows DEF CacheInv
<1>2. row \in RequestRows /\ row.pc = "storing"
  BY <1>1 DEF RequestRows
<1>3. /\ UNCHANGED <<entry, fillLease, inflight, renewal, sinceFill, faults, deaths>>
      /\ request' = [request EXCEPT ![c] = row]
  BY DEF Answered, Become
<1>4. request' \in [Requests -> RequestRows] /\ WaitingInv' /\ InflightInv' /\ FollowInv'
  BY <1>1, <1>2, <1>3, OneRequest
<1> QED
  BY <1>1, <1>3, <1>4 DEF CacheInv, CacheTypeOK

\* The promise settles: the call ends together with those that follow it.
LEMMA SettleKeeps ==
  ASSUME CacheInv, NEW c \in Requests, NEW ok \in BOOLEAN, Calling(c), Settle(c, ok),
         entry' \in EntryKinds, UNCHANGED <<fillLease, renewal, deaths>>, faults' \in Nat
  PROVE  CacheInv'
<1> DEFINE done == IF request[c].leased THEN [Ended("releasing") EXCEPT !.ok = ok] ELSE Ended(Outcome(ok))
           Follows(d) == request[d].pc = "following" /\ request[d].leader = c
<1>1. CacheTypeOK /\ ProcessOf[c] \in Processes /\ \A d \in Requests : request[d] \in RequestRows
  BY CacheRows DEF CacheInv
<1>2. /\ done \in RequestRows /\ done.pc \in {"releasing", "served", "failed"}
      /\ Ended(Outcome(ok)) \in RequestRows /\ Ended(Outcome(ok)).pc \in {"served", "failed"}
  BY EndedRow DEF Outcome
<1>3. request' = [d \in Requests |-> IF d = c THEN done ELSE IF Follows(d) THEN Ended(Outcome(ok)) ELSE request[d]]
  BY DEF Settle, Calling
<1>4. inflight' = [inflight EXCEPT ![ProcessOf[c]] = IF Lands(c) THEN Nobody ELSE @]
  BY DEF Settle
<1>5. sinceFill' \in Nat
  BY <1>1 DEF Settle, CacheTypeOK
<1> HIDE DEF done
<1>6. request' \in [Requests -> RequestRows]
  BY <1>1, <1>2, <1>3
<1>7. inflight' \in [Processes -> Requests \cup {Nobody}]
  BY <1>1, <1>4 DEF CacheTypeOK
<1>8. \A d \in Requests : \/ request'[d].pc \in {"releasing", "served", "failed"}
                          \/ d # c /\ ~Follows(d) /\ request'[d] = request[d]
  BY <1>2, <1>3
<1>9. WaitingInv'
  BY <1>8 DEF CacheInv, WaitingInv
<1>10. InflightInv'
  <2> SUFFICES ASSUME NEW p \in Processes, inflight'[p] # Nobody
               PROVE  request'[inflight'[p]].pc \in {"fetching", "storing"} /\ ProcessOf[inflight'[p]] = p
    BY DEF InflightInv, Calling
  <2>1. inflight'[p] = inflight[p] /\ inflight[p] # c
    BY <1>1, <1>4 DEF CacheTypeOK, Lands, CacheInv, InflightInv
  <2>2. inflight[p] \in Requests /\ Calling(inflight[p]) /\ ProcessOf[inflight[p]] = p
    BY <2>1, <1>1, CacheRows DEF CacheInv, InflightInv
  <2>3. request'[inflight[p]] = request[inflight[p]]
    BY <1>3, <2>1, <2>2 DEF Calling
  <2> QED
    BY <2>1, <2>2, <2>3 DEF Calling
<1>11. FollowInv'
  <2> SUFFICES ASSUME NEW d \in Requests, request'[d].pc = "following"
               PROVE  /\ request'[d].leader \in Requests
                      /\ request'[request'[d].leader].pc \in {"fetching", "storing"}
                      /\ ProcessOf[request'[d].leader] = ProcessOf[d]
    BY DEF FollowInv, Calling
  <2>1. request'[d] = request[d] /\ request[d].leader # c
    BY <1>8
  <2>2. request[d].leader \in Requests /\ Calling(request[d].leader) /\ ProcessOf[request[d].leader] = ProcessOf[d]
    BY <2>1 DEF CacheInv, FollowInv
  <2>3. request'[request[d].leader] = request[request[d].leader]
    BY <1>3, <2>1, <2>2 DEF Calling
  <2> QED
    BY <2>1, <2>2, <2>3 DEF Calling
<1> QED
  BY <1>1, <1>5, <1>6, <1>7, <1>9, <1>10, <1>11 DEF CacheInv, CacheTypeOK

LEMMA CallKeeps ==
  ASSUME CacheInv, NEW c \in Requests, Store(c) \/ StoreFails(c) \/ FetchFails(c)
  PROVE  CacheInv'
<1>1. CacheTypeOK /\ Calling(c)
  BY DEF CacheInv, Store, StoreFails, FetchFails, Calling
<1>2. UNCHANGED <<fillLease, renewal, deaths>> /\ faults' \in {faults, faults + 1}
  BY DEF Store, StoreFails, FetchFails, Faulty
<1>3. entry' \in {entry, "good"} /\ (Settle(c, TRUE) \/ Settle(c, FALSE))
  BY DEF Store, StoreFails, FetchFails
<1>4. entry' \in EntryKinds /\ faults' \in Nat
  BY <1>1, <1>2, <1>3 DEF CacheTypeOK, EntryKinds
<1> QED
  BY <1>1, <1>2, <1>3, <1>4, SettleKeeps

LEMMA ReleaseKeeps ==
  ASSUME CacheInv, NEW c \in Requests, ReleaseFill(c) \/ ReleaseFillFails(c)
  PROVE  CacheInv'
<1> DEFINE row == Ended(Outcome(request[c].ok))
<1>1. CacheTypeOK /\ request[c] \in RequestRows /\ ~Calling(c)
  BY CacheRows DEF CacheInv, ReleaseFill, ReleaseFillFails, Calling
<1>2. row \in RequestRows /\ row.pc \in {"served", "failed"}
  BY <1>1, EndedRow DEF Outcome, RequestRows
<1>3. /\ request' = [request EXCEPT ![c] = row]
      /\ UNCHANGED <<entry, inflight, renewal, sinceFill, deaths>> /\ faults' \in Nat
      /\ fillLease' \in {fillLease, [owner |-> Nobody, left |-> 0]}
  BY <1>1 DEF ReleaseFill, ReleaseFillFails, End, Faulty, CacheTypeOK
<1>4. fillLease' \in FillLeaseRows
  BY <1>1, <1>3, CacheAssumption DEF CacheTypeOK, FillLeaseRows
<1> HIDE DEF row
<1>5. request' \in [Requests -> RequestRows] /\ WaitingInv' /\ InflightInv' /\ FollowInv'
  BY <1>1, <1>2, <1>3, OneRequest
<1> QED
  BY <1>1, <1>3, <1>4, <1>5 DEF CacheInv, CacheTypeOK

LEMMA AgainKeeps ==
  ASSUME CacheInv, NEW c \in Requests, Again(c)
  PROVE  CacheInv'
<1>1. CacheTypeOK /\ ~Calling(c)
  BY DEF CacheInv, Again, EndStates, Calling
<1>2. /\ UNCHANGED <<entry, fillLease, inflight, renewal, sinceFill, faults, deaths>>
      /\ request' = [request EXCEPT ![c] = NewRequest]
  BY DEF Again
<1>3. request' \in [Requests -> RequestRows] /\ WaitingInv' /\ InflightInv' /\ FollowInv'
  BY <1>1, <1>2, EndedRow, OneRequest
<1> QED
  BY <1>1, <1>2, <1>3 DEF CacheInv, CacheTypeOK

LEMMA RenewalKeeps ==
  ASSUME CacheInv, NEW c \in Requests, SendRenewal(c) \/ Renew(c) \/ RenewFails(c)
  PROVE  CacheInv'
<1>1. CacheTypeOK /\ request[c] \in RequestRows
  BY CacheRows DEF CacheInv
<1>2. CASE SendRenewal(c)
  <2> DEFINE row == [request[c] EXCEPT !.age = 0]
  <2>1. row \in RequestRows /\ row.pc \in {"fetching", "storing"}
    BY <1>1, <1>2, CacheAssumption DEF RequestRows, SendRenewal, Filling
  <2>2. /\ UNCHANGED <<entry, fillLease, inflight, sinceFill, faults, deaths>>
        /\ request' = [request EXCEPT ![c] = row] /\ renewal' \subseteq Requests
    BY <1>1, <1>2 DEF SendRenewal, CacheTypeOK
  <2>3. request' \in [Requests -> RequestRows] /\ WaitingInv' /\ InflightInv' /\ FollowInv'
    BY <2>1, <2>2, OneRequest
  <2> QED
    BY <1>1, <2>2, <2>3 DEF CacheInv, CacheTypeOK
<1>3. CASE Renew(c) \/ RenewFails(c)
  <2>1. /\ UNCHANGED <<entry, inflight, request, sinceFill, deaths>>
        /\ renewal' \subseteq Requests /\ faults' \in Nat /\ fillLease' \in {fillLease, Granted(c)}
    BY <1>1, <1>3 DEF Renew, RenewFails, Faulty, CacheTypeOK
  <2> QED
    BY <1>1, <2>1, GrantedRow DEF CacheInv, CacheTypeOK, WaitingInv, InflightInv, FollowInv, Calling
<1> QED
  BY <1>2, <1>3

-----------------------------------------------------------------------------
(* Processes and time *)

LEMMA DieKeeps ==
  ASSUME CacheInv, NEW p \in Processes, Die(p)
  PROVE  CacheInv'
<1>1. CacheTypeOK /\ \A d \in Requests : request[d] \in RequestRows
  BY CacheRows DEF CacheInv
<1>2. /\ request' = [c \in Requests |-> IF c \in OfProcess(p) THEN Ended("failed") ELSE request[c]]
      /\ inflight' = [inflight EXCEPT ![p] = Nobody]
      /\ UNCHANGED <<entry, fillLease, renewal, faults>> /\ sinceFill' \in Nat /\ deaths' \in Nat
  BY <1>1 DEF Die, CacheTypeOK
<1>3. request' \in [Requests -> RequestRows] /\ inflight' \in [Processes -> Requests \cup {Nobody}]
  BY <1>1, <1>2, EndedRow DEF CacheTypeOK
<1>4. \A c \in Requests : IF ProcessOf[c] = p THEN request'[c].pc = "failed" ELSE request'[c] = request[c]
  BY <1>2, EndedRow DEF OfProcess
<1>5. WaitingInv'
  BY <1>4 DEF CacheInv, WaitingInv
<1>6. InflightInv'
  <2>1. inflight'[p] = Nobody /\ \A q \in Processes \ {p} : inflight'[q] = inflight[q]
    BY <1>1, <1>2 DEF CacheTypeOK
  <2> QED
    BY <1>1, <1>4, <2>1, CacheRows DEF CacheInv, InflightInv, Calling
<1>7. FollowInv'
  BY <1>4 DEF CacheInv, FollowInv, Calling
<1> QED
  BY <1>1, <1>2, <1>3, <1>5, <1>6, <1>7 DEF CacheInv, CacheTypeOK

LEMMA TickKeeps ==
  ASSUME CacheInv, CacheTick
  PROVE  CacheInv'
<1>1. CacheTypeOK /\ \A d \in Requests : request[d] \in RequestRows
  BY CacheRows DEF CacheInv
<1>2. /\ UNCHANGED <<entry, inflight, renewal, faults, deaths>>
      /\ request' = [c \in Requests |->
           CASE request[c].pc = "sleeping" -> [request[c] EXCEPT !.pc = "polling", !.waited = request[c].waited + 1]
             [] c \in Filling -> [request[c] EXCEPT !.age = request[c].age + 1]
             [] OTHER -> request[c]]
  BY DEF CacheTick
<1>3. fillLease' \in FillLeaseRows
  <2>1. fillLease \in FillLeaseRows /\ fillLease.left \in 0..LeaseTime
    BY <1>1 DEF CacheTypeOK, FillLeaseRows
  <2>2. (IF fillLease.left = 0 THEN 0 ELSE fillLease.left - 1) \in 0..LeaseTime
    BY <2>1, CacheAssumption
  <2>3. fillLease' = [fillLease EXCEPT !.left = IF fillLease.left = 0 THEN 0 ELSE fillLease.left - 1]
    BY DEF CacheTick
  <2> QED
    BY <2>1, <2>2, <2>3 DEF FillLeaseRows
<1>4. sinceFill' \in Nat
  <2>1. sinceFill' \in {sinceFill, sinceFill + 1}
    BY DEF CacheTick
  <2> QED
    BY <1>1, <2>1 DEF CacheTypeOK
<1>5. ASSUME NEW c \in Requests
      PROVE  /\ request'[c] \in RequestRows
             /\ \/ request'[c] = request[c]
                \/ request[c].pc = "sleeping" /\ request'[c].pc = "polling"
                \/ Calling(c) /\ request'[c].pc = request[c].pc /\ request'[c].leader = request[c].leader
  <2>1. CASE request[c].pc = "sleeping"
    <3>1. request[c].waited + 1 \in 0..WaitTime
      BY <1>1, <2>1, CacheAssumption DEF CacheInv, WaitingInv, RequestRows
    <3>2. request'[c] = [request[c] EXCEPT !.pc = "polling", !.waited = request[c].waited + 1]
      BY <1>2, <2>1 DEF Filling
    <3> QED
      BY <1>1, <2>1, <3>1, <3>2 DEF RequestRows
  <2>2. CASE request[c].pc # "sleeping" /\ c \in Filling
    <3>1. request[c].age < RenewEach
      BY <2>2 DEF CacheTick, Timely
    <3>2. RenewEach \in Nat /\ RenewEach <= LeaseTime
      BY CacheAssumption DEF RenewEach
    <3>3. request[c].age + 1 \in 0..LeaseTime
      BY <1>1, <3>1, <3>2, CacheAssumption DEF RequestRows
    <3>4. request'[c] = [request[c] EXCEPT !.age = request[c].age + 1]
      BY <1>2, <2>2
    <3> QED
      BY <1>1, <2>2, <3>3, <3>4 DEF RequestRows, Filling, Calling
  <2>3. CASE request[c].pc # "sleeping" /\ c \notin Filling
    BY <1>1, <1>2, <2>3
  <2> QED
    BY <2>1, <2>2, <2>3
<1>6. request' \in [Requests -> RequestRows]
  BY <1>2, <1>5
<1>7. WaitingInv'
  BY <1>5 DEF CacheInv, WaitingInv, Calling
<1>8. InflightInv'
  BY <1>1, <1>2, <1>5, CacheRows DEF CacheInv, InflightInv, Calling
<1>9. FollowInv'
  BY <1>5 DEF CacheInv, FollowInv, Calling
<1> QED
  BY <1>1, <1>2, <1>3, <1>4, <1>6, <1>7, <1>8, <1>9 DEF CacheInv, CacheTypeOK

-----------------------------------------------------------------------------
(* The theorems *)

LEMMA CacheInitial == CacheInit => CacheInv
<1> SUFFICES ASSUME CacheInit PROVE CacheInv
  OBVIOUS
<1>1. CacheTypeOK
  BY EndedRow, CacheAssumption DEF CacheInit, CacheTypeOK, FillLeaseRows
<1>2. \A c \in Requests : request[c].pc = "idle" /\ request[c].waited = 0
  BY EndedRow DEF CacheInit
<1>3. WaitingInv /\ InflightInv /\ FollowInv
  BY <1>2 DEF CacheInit, WaitingInv, InflightInv, FollowInv
<1> QED
  BY <1>1, <1>3 DEF CacheInv

LEMMA CacheInductive == CacheInv /\ [CacheNext]_cacheVars => CacheInv'
<1> SUFFICES ASSUME CacheInv, [CacheNext]_cacheVars PROVE CacheInv'
  OBVIOUS
<1>1. ASSUME NEW c \in Requests, RequestStep(c) PROVE CacheInv'
  BY <1>1, LookKeeps, PurgeKeeps, JoinKeeps, AcquireKeeps, PollKeeps, UnleasedKeeps, AnsweredKeeps,
     CallKeeps, ReleaseKeeps, AgainKeeps, RenewalKeeps DEF RequestStep
<1>2. ASSUME NEW p \in Processes, Die(p) PROVE CacheInv'
  BY <1>2, DieKeeps
<1>3. CASE CacheTick
  BY <1>3, TickKeeps
<1>4. CASE Expire
  BY <1>4 DEF Expire, EntryKinds, CacheInv, CacheTypeOK, WaitingInv, InflightInv, FollowInv, Calling
<1>5. CASE UNCHANGED cacheVars
  BY <1>5 DEF cacheVars, CacheInv, CacheTypeOK, WaitingInv, InflightInv, FollowInv, Calling
<1> QED
  BY <1>1, <1>2, <1>3, <1>4, <1>5 DEF CacheNext

\* Only the expiry of a lease takes it from the request that fills the entry.
LEMMA KeepsLease ==
  CacheInv /\ [CacheNext]_cacheVars =>
      [\A c \in Requests : LosesLease(c) => fillLease.left = 0]_cacheVars
<1> SUFFICES ASSUME CacheInv, CacheNext, NEW c \in Requests, LosesLease(c)
             PROVE  fillLease.left = 0
  OBVIOUS
<1>1. /\ c \in Filling /\ request[c].pc \in {"fetching", "storing"}
      /\ fillLease.owner = c /\ fillLease'.owner # c /\ c # Nobody
  BY CacheAssumption DEF LosesLease, Filling
<1>2. ASSUME NEW d \in Requests, RequestStep(d) PROVE fillLease.left = 0
  <2>1. CASE Acquire(d) \/ Retry(d)
    BY <1>1, <2>1 DEF Acquire, Retry, Obtains
  <2>2. CASE ReleaseFill(d)
    BY <1>1, <2>2 DEF ReleaseFill, Releases
  <2>3. CASE Renew(d)
    BY <1>1, <2>3, GrantedRow DEF Renew, Obtains
  <2>4. CASE UNCHANGED fillLease
    BY <1>1, <2>4
  <2> QED
    BY <1>2, <2>1, <2>2, <2>3, <2>4 DEF RequestStep, Look, LookFails, Purge, Join, Poll, ProceedUnleased,
       AbortWait, Answered, Store, StoreFails, FetchFails, ReleaseFillFails, Again, SendRenewal, RenewFails
<1>3. CASE (\E p \in Processes : Die(p)) \/ Expire
  BY <1>1, <1>3 DEF Die, Expire
<1>4. CASE CacheTick
  BY <1>1, <1>4 DEF CacheTick, CacheInv, CacheTypeOK, FillLeaseRows
<1> QED
  BY <1>2, <1>3, <1>4 DEF CacheNext

LEMMA CacheInvariant == CacheSpec => []CacheInv
<1> QED
  BY CacheInitial, CacheInductive, PTL DEF CacheSpec

\* The rows keep their types; no request polls longer than it may wait.
THEOREM CacheTypes == CacheSpec => []CacheTypeOK
<1>1. CacheInv => CacheTypeOK
  BY DEF CacheInv
<1> QED
  BY <1>1, CacheInvariant, PTL

\* Whoever joins a call waits for one that is under way.
THEOREM FollowersHaveCall == CacheSpec => []FollowsCall
<1>1. CacheInv => FollowsCall
  BY DEF CacheInv, FollowInv, FollowsCall, Calling
<1> QED
  BY <1>1, CacheInvariant, PTL

\* A lease under which an entry is filled is lost by its expiry only.
THEOREM LeasesKept == CacheSpec => LeaseKept
<1> QED
  BY CacheInvariant, KeepsLease, PTL DEF CacheSpec, LeaseKept

-----------------------------------------------------------------------------
(* One call at a time *)

\* A request asks the provider safely while it holds a lease that lasts until
\* its next renewal is due, or over the renewal that is on its way.
DueIn(c) == IF c \in renewal THEN LeaseTime - RenewEach ELSE LeaseTime - request[c].age
SafeCall(c) == request[c].leased /\ fillLease.owner = c /\ fillLease.left >= DueIn(c)
Asking == {c \in Requests : request[c].pc = "fetching"}

\* Every other request that asks has been let through by a failure.
Unsafe == {c \in Asking : ~SafeCall(c)}
AgeInv == \A c \in Requests : request[c].age <= RenewEach
FillInv == CacheInv /\ AgeInv /\ Cardinality(Unsafe) <= faults

LEMMA RenewalDue == RenewEach \in Nat /\ RenewEach < LeaseTime /\ LeaseTime \in Nat
BY CacheAssumption DEF RenewEach

\* The lease of such a request has not expired, so that no other one obtains it.
LEMMA SafeLease ==
  ASSUME CacheTypeOK, AgeInv, NEW c \in Requests, SafeCall(c)
  PROVE  fillLease.left > 0 /\ \A d \in Requests : Obtains(d) => d = c
<1>1. request[c].age \in Nat /\ request[c].age <= RenewEach /\ fillLease.left \in Nat
  BY CacheRows DEF AgeInv, RequestRows, CacheTypeOK, FillLeaseRows
<1>2. DueIn(c) \in Nat /\ DueIn(c) > 0
  BY <1>1, RenewalDue DEF DueIn
<1>3. fillLease.left > 0 /\ fillLease.owner = c /\ c # Nobody
  BY <1>1, <1>2, CacheAssumption DEF SafeCall
<1> QED BY <1>1, <1>3 DEF Obtains

\* A step after which no request is unsafe that was not, or one that a failure
\* lets through.
LEMMA FewUnsafe ==
  ASSUME FillInv, CacheInv', AgeInv',
         \/ Unsafe' \subseteq Unsafe /\ faults' \in {faults, faults + 1}
         \/ faults' = faults + 1 /\ \E c \in Requests : Unsafe' \subseteq Unsafe \cup {c}
  PROVE  FillInv'
<1>1. IsFiniteSet(Unsafe) /\ Cardinality(Unsafe) \in Nat /\ faults \in Nat /\ Cardinality(Unsafe) <= faults
  <2>1. Unsafe \subseteq Requests
    BY DEF Unsafe, Asking
  <2>2. IsFiniteSet(Unsafe)
    BY <2>1, CacheAssumption, FS_Subset
  <2> QED BY <2>2, FS_CardinalityType DEF FillInv, CacheInv, CacheTypeOK
<1>2. CASE Unsafe' \subseteq Unsafe /\ faults' \in {faults, faults + 1}
  <2>1. Cardinality(Unsafe') <= Cardinality(Unsafe) /\ Cardinality(Unsafe') \in Nat
    BY <1>1, <1>2, FS_Subset, FS_CardinalityType
  <2> QED BY <1>1, <1>2, <2>1 DEF FillInv
<1>3. CASE faults' = faults + 1 /\ \E c \in Requests : Unsafe' \subseteq Unsafe \cup {c}
  <2>1. PICK c \in Requests : Unsafe' \subseteq Unsafe \cup {c}
    BY <1>3
  <2>2. IsFiniteSet(Unsafe \cup {c}) /\ Cardinality(Unsafe \cup {c}) <= Cardinality(Unsafe) + 1
        /\ Cardinality(Unsafe \cup {c}) \in Nat
    <3>1. /\ IsFiniteSet(Unsafe \cup {c})
          /\ Cardinality(Unsafe \cup {c}) = IF c \in Unsafe THEN Cardinality(Unsafe) ELSE Cardinality(Unsafe) + 1
      BY <1>1, FS_AddElement
    <3> QED BY <1>1, <3>1
  <2>3. Cardinality(Unsafe') <= Cardinality(Unsafe \cup {c}) /\ Cardinality(Unsafe') \in Nat
    BY <2>1, <2>2, FS_Subset, FS_CardinalityType
  <2> QED BY <1>1, <1>3, <2>2, <2>3 DEF FillInv
<1> QED BY <1>2, <1>3

\* A step that leaves the lease and the renewals alone and starts no call.
LEMMA NoNewCall ==
  ASSUME FillInv, CacheInv', UNCHANGED <<fillLease, renewal>>, faults' \in {faults, faults + 1},
         \A d \in Requests :
            /\ request'[d] = request[d] \/ request'[d].pc # "fetching"
            /\ request'[d].age \in {request[d].age, 0}
  PROVE  FillInv'
<1>1. AgeInv'
  BY RenewalDue DEF FillInv, AgeInv
<1>2. Unsafe' \subseteq Unsafe
  BY DEF Unsafe, Asking, SafeCall, DueIn
<1> QED BY <1>1, <1>2, FewUnsafe

\* The same for a step of one request.
LEMMA NoNewCallOfOne ==
  ASSUME FillInv, CacheInv', UNCHANGED <<fillLease, renewal>>, faults' \in {faults, faults + 1},
         NEW c \in Requests, NEW row, request' = [request EXCEPT ![c] = row],
         row.pc # "fetching", row.age \in {request[c].age, 0}
  PROVE  FillInv'
<1>1. request'[c] = row /\ \A d \in Requests \ {c} : request'[d] = request[d]
  BY DEF FillInv, CacheInv, CacheTypeOK
<1> QED BY <1>1, NoNewCall

\* Who obtains the lease: no other call was safe.
LEMMA ObtainedUnsafe ==
  ASSUME FillInv, NEW c \in Requests, Obtains(c), fillLease' = Granted(c),
         request'[c].leased, request'[c].age \in Nat,
         \A d \in Requests \ {c} : request'[d] = request[d]
  PROVE  Unsafe' \subseteq Unsafe
<1>1. CacheTypeOK /\ AgeInv
  BY DEF FillInv, CacheInv
<1>2. c \notin Unsafe'
  <2>1. fillLease'.owner = c /\ fillLease'.left = LeaseTime
    BY DEF Granted
  <2>2. SafeCall(c)'
    BY <2>1, RenewalDue DEF SafeCall, DueIn
  <2> QED BY <2>2 DEF Unsafe
<1>3. ASSUME NEW d \in Requests \ {c} PROVE ~SafeCall(d)
  BY <1>1, SafeLease
<1>4. ASSUME NEW d \in Unsafe' PROVE d \in Unsafe
  BY <1>2, <1>3 DEF Unsafe, Asking
<1> QED BY <1>4

LEMMA FillEnded == ASSUME NEW pc PROVE Ended(pc).pc = pc /\ Ended(pc).age = 0
BY DEF Ended, NewRequest

LEMMA OutcomeEnds ==
  ASSUME NEW ok PROVE Ended(Outcome(ok)).pc # "fetching" /\ Ended(Outcome(ok)).age = 0
<1>1. Outcome(ok) # "fetching"
  BY DEF Outcome
<1> QED BY <1>1, FillEnded

LEMMA RowHas ==
  ASSUME FillInv, NEW c \in Requests, NEW pc
  PROVE  [request[c] EXCEPT !.pc = pc].pc = pc /\ [request[c] EXCEPT !.pc = pc].age = request[c].age
BY CacheRows DEF FillInv, CacheInv, RequestRows

LEMMA BecomeFills ==
  ASSUME FillInv, CacheInv', UNCHANGED <<fillLease, renewal>>, faults' \in {faults, faults + 1},
         NEW c \in Requests, NEW pc, pc # "fetching", Become(c, pc) \/ End(c, pc)
  PROVE  FillInv'
<1>1. CASE Become(c, pc)
  <2> DEFINE row == [request[c] EXCEPT !.pc = pc]
  <2>1. request' = [request EXCEPT ![c] = row] /\ row.pc = pc /\ row.age = request[c].age
    BY <1>1, RowHas DEF Become
  <2> HIDE DEF row
  <2> QED BY <2>1, NoNewCallOfOne
<1>2. CASE End(c, pc)
  <2>1. request' = [request EXCEPT ![c] = Ended(pc)] /\ Ended(pc).pc = pc /\ Ended(pc).age = 0
    BY <1>2, FillEnded DEF End
  <2> QED BY <2>1, NoNewCallOfOne
<1> QED BY <1>1, <1>2

\* A request that fetches: its row, and those of the others.
LEMMA Fetches ==
  ASSUME FillInv, NEW c \in Requests, NEW leased \in BOOLEAN, Fetch(c, leased)
  PROVE  /\ request'[c].leased = leased /\ request'[c].age = request[c].age
         /\ \A d \in Requests \ {c} : request'[d] = request[d]
         /\ \A d \in Requests : request'[d].age = request[d].age /\ request[d].age \in Nat
<1> DEFINE row == [request[c] EXCEPT !.pc = "fetching", !.leased = leased, !.waited = 0]
<1>1. request \in [Requests -> RequestRows] /\ \A d \in Requests : request[d] \in RequestRows
  BY DEF FillInv, CacheInv, CacheTypeOK
<1>2. row.leased = leased /\ row.age = request[c].age
  BY <1>1 DEF RequestRows
<1>3. request' = [request EXCEPT ![c] = row]
  BY DEF Fetch
<1> HIDE DEF row
<1> QED BY <1>1, <1>2, <1>3 DEF RequestRows

LEMMA ObtainFills ==
  ASSUME FillInv, CacheInv', NEW c \in Requests, Obtains(c), fillLease' = Granted(c), Fetch(c, TRUE),
         UNCHANGED faults
  PROVE  FillInv'
<1>1. AgeInv'
  BY Fetches DEF FillInv, AgeInv
<1>2. Unsafe' \subseteq Unsafe
  BY Fetches, ObtainedUnsafe
<1> QED BY <1>1, <1>2, FewUnsafe

\* Asking, waiting and settling.
LEMMA AcquireFills ==
  ASSUME FillInv, CacheInv', NEW c \in Requests, Acquire(c) \/ Retry(c)
  PROVE  FillInv'
<1>1. CASE Obtains(c)
  BY <1>1, ObtainFills DEF Acquire, Retry
<1>2. CASE ~Obtains(c)
  <2>1. PICK pc \in {"sleeping", "busy"} : Become(c, pc) /\ UNCHANGED <<fillLease, renewal, faults>>
    BY <1>2 DEF Acquire, Retry
  <2> QED BY <2>1, BecomeFills
<1> QED BY <1>1, <1>2

LEMMA UnleasedFills ==
  ASSUME FillInv, CacheInv', NEW c \in Requests, ProceedUnleased(c)
  PROVE  FillInv'
<1>1. Fetch(c, FALSE) /\ faults' = faults + 1 /\ UNCHANGED <<fillLease, renewal>>
  BY DEF ProceedUnleased, Faulty
<1>2. AgeInv'
  BY <1>1, Fetches DEF FillInv, AgeInv
<1>3. Unsafe' \subseteq Unsafe \cup {c}
  BY <1>1, Fetches DEF Unsafe, Asking, SafeCall, DueIn
<1> QED BY <1>1, <1>2, <1>3, FewUnsafe

LEMMA SettleFills ==
  ASSUME FillInv, CacheInv', NEW c \in Requests, NEW ok \in BOOLEAN, Settle(c, ok),
         UNCHANGED <<fillLease, renewal>>, faults' \in {faults, faults + 1}
  PROVE  FillInv'
<1>1. ASSUME NEW d \in Requests
      PROVE  /\ request'[d] = request[d] \/ request'[d].pc # "fetching"
             /\ request'[d].age \in {request[d].age, 0}
  <2>1. request'[d] \in {request[d], Ended(Outcome(ok)), [Ended("releasing") EXCEPT !.ok = ok]}
    BY DEF Settle
  <2>2. Ended(Outcome(ok)).pc # "fetching" /\ Ended(Outcome(ok)).age = 0
    BY OutcomeEnds
  <2>3. [Ended("releasing") EXCEPT !.ok = ok].pc # "fetching" /\ [Ended("releasing") EXCEPT !.ok = ok].age = 0
    BY DEF Ended, NewRequest
  <2> QED BY <2>1, <2>2, <2>3
<1> QED BY <1>1, NoNewCall

LEMMA ReleaseFills ==
  ASSUME FillInv, CacheInv', NEW c \in Requests, ReleaseFill(c)
  PROVE  FillInv'
<1> DEFINE row == Ended(Outcome(request[c].ok))
<1>1. row.pc # "fetching" /\ row.age = 0 /\ request' = [request EXCEPT ![c] = row]
      /\ UNCHANGED <<renewal, faults>>
  BY OutcomeEnds DEF ReleaseFill, End
<1>2. fillLease' = IF fillLease.owner = c THEN [owner |-> Nobody, left |-> 0] ELSE fillLease
  BY DEF ReleaseFill, Releases
<1> HIDE DEF row
<1>3. request'[c] = row /\ \A d \in Requests \ {c} : request'[d] = request[d]
  BY <1>1 DEF FillInv, CacheInv, CacheTypeOK
<1>4. AgeInv'
  BY <1>1, <1>3, RenewalDue DEF FillInv, AgeInv
<1>5. Unsafe' \subseteq Unsafe
  BY <1>1, <1>2, <1>3 DEF Unsafe, Asking, SafeCall, DueIn
<1> QED BY <1>1, <1>4, <1>5, FewUnsafe

\* The renewal that is sent covers the time until it has run; one that fails
\* leaves its request without.
LEMMA SendFills ==
  ASSUME FillInv, CacheInv', NEW c \in Requests, SendRenewal(c)
  PROVE  FillInv'
<1> DEFINE row == [request[c] EXCEPT !.age = 0]
<1>1. /\ request \in [Requests -> RequestRows] /\ request[c] \in RequestRows /\ AgeInv
      /\ fillLease \in FillLeaseRows
  BY DEF FillInv, CacheInv, CacheTypeOK
<1>2. /\ row.pc = request[c].pc /\ row.leased = request[c].leased /\ row.age = 0
      /\ request' = [request EXCEPT ![c] = row] /\ renewal' = renewal \cup {c}
      /\ UNCHANGED <<fillLease, faults>>
  BY <1>1 DEF SendRenewal, RequestRows
<1> HIDE DEF row
<1>3. request'[c] = row /\ \A d \in Requests \ {c} : request'[d] = request[d]
  BY <1>1, <1>2
<1>4. AgeInv'
  BY <1>1, <1>2, <1>3, RenewalDue DEF AgeInv
<1>5. SafeCall(c) => SafeCall(c)'
  <2>1. request[c].age \in Nat /\ request[c].age <= RenewEach /\ fillLease.left \in Nat
    BY <1>1 DEF AgeInv, RequestRows, FillLeaseRows
  <2>2. ASSUME SafeCall(c) PROVE fillLease.left >= LeaseTime - RenewEach
    BY <2>1, <2>2, RenewalDue DEF SafeCall, DueIn
  <2>3. request'[c].leased = request[c].leased /\ c \in renewal' /\ fillLease' = fillLease
    BY <1>2, <1>3
  <2> QED BY <2>2, <2>3 DEF SafeCall, DueIn
<1>6. Unsafe' \subseteq Unsafe
  <2>1. ASSUME NEW d \in Requests \ {c} PROVE d \in Unsafe' => d \in Unsafe
    BY <1>2, <1>3 DEF Unsafe, Asking, SafeCall, DueIn
  <2>2. c \in Unsafe' => c \in Unsafe
    BY <1>2, <1>3, <1>5 DEF Unsafe, Asking
  <2> QED BY <2>1, <2>2 DEF Unsafe, Asking
<1> QED BY <1>2, <1>4, <1>6, FewUnsafe

LEMMA RenewFills ==
  ASSUME FillInv, CacheInv', NEW c \in Requests, Renew(c)
  PROVE  FillInv'
<1>1. renewal' = renewal \ {c} /\ UNCHANGED <<request, faults>> /\ AgeInv /\ CacheTypeOK
  BY DEF Renew, FillInv, CacheInv
<1>2. AgeInv'
  BY <1>1 DEF AgeInv
<1>3. CASE Obtains(c)
  <2>1. fillLease' = Granted(c) /\ request[c].age \in Nat
    BY <1>1, <1>3, CacheRows DEF Renew, RequestRows
  <2>2. CASE request[c].leased
    BY <1>1, <1>2, <1>3, <2>1, <2>2, ObtainedUnsafe, FewUnsafe
  <2>3. CASE ~request[c].leased
    <3>1. ASSUME NEW d \in Requests PROVE ~SafeCall(d)
      BY <1>1, <1>3, <2>3, SafeLease DEF SafeCall
    <3>2. Unsafe' \subseteq Unsafe
      BY <1>1, <3>1 DEF Unsafe, Asking
    <3> QED BY <1>1, <1>2, <3>2, FewUnsafe
  <2> QED BY <2>2, <2>3
<1>4. CASE ~Obtains(c)
  <2>1. fillLease' = fillLease /\ fillLease.owner # c
    BY <1>4 DEF Renew, Obtains
  <2>2. Unsafe' \subseteq Unsafe
    BY <1>1, <2>1 DEF Unsafe, Asking, SafeCall, DueIn
  <2> QED BY <1>1, <1>2, <2>2, FewUnsafe
<1> QED BY <1>3, <1>4

LEMMA RenewFailsFills ==
  ASSUME FillInv, CacheInv', NEW c \in Requests, RenewFails(c)
  PROVE  FillInv'
<1>1. renewal' = renewal \ {c} /\ UNCHANGED <<fillLease, request>> /\ faults' = faults + 1
  BY DEF RenewFails, Faulty
<1>2. AgeInv'
  BY <1>1 DEF FillInv, AgeInv
<1>3. Unsafe' \subseteq Unsafe \cup {c}
  BY <1>1 DEF Unsafe, Asking, SafeCall, DueIn
<1> QED BY <1>1, <1>2, <1>3, FewUnsafe

LEMMA TickFills ==
  ASSUME FillInv, CacheInv', CacheTick
  PROVE  FillInv'
<1>1. /\ request \in [Requests -> RequestRows] /\ AgeInv /\ fillLease \in FillLeaseRows /\ CacheTypeOK
  BY DEF FillInv, CacheInv, CacheTypeOK
<1>2. /\ renewal = {} /\ UNCHANGED <<renewal, faults>>
      /\ fillLease' = [fillLease EXCEPT !.left = IF @ = 0 THEN 0 ELSE @ - 1]
  BY DEF CacheTick, Timely
<1>3. ASSUME NEW d \in Requests
      PROVE  /\ request'[d].leased = request[d].leased /\ request'[d].age <= RenewEach
             /\ request'[d].pc = "fetching" => request[d].pc = "fetching"
             /\ request[d].age \in Nat /\ request'[d].age \in {request[d].age, request[d].age + 1}
  <2>1. request[d] \in RequestRows /\ request[d].age <= RenewEach /\ request[d].age \in Nat
    BY <1>1 DEF AgeInv, RequestRows
  <2>2. CASE request[d].pc = "sleeping"
    <3>1. request'[d] = [request[d] EXCEPT !.pc = "polling", !.waited = @ + 1]
      BY <2>2 DEF CacheTick, Filling
    <3> QED BY <2>1, <2>2, <3>1 DEF RequestRows
  <2>3. CASE request[d].pc # "sleeping" /\ d \in Filling
    <3>1. request'[d] = [request[d] EXCEPT !.age = @ + 1] /\ request[d].age < RenewEach
      BY <2>3 DEF CacheTick, Timely
    <3> QED BY <2>1, <2>3, <3>1, RenewalDue DEF RequestRows
  <2>4. CASE request[d].pc # "sleeping" /\ d \notin Filling
    <3>1. request'[d] = request[d]
      BY <2>4 DEF CacheTick
    <3> QED BY <2>1, <3>1
  <2> QED BY <2>2, <2>3, <2>4
<1>4. AgeInv'
  BY <1>3 DEF AgeInv
<1>5. ASSUME NEW d \in Unsafe' PROVE d \in Unsafe
  <2>1. d \in Requests /\ request[d].pc = "fetching" /\ ~SafeCall(d)'
    BY <1>3 DEF Unsafe, Asking
  <2>2. CASE SafeCall(d)
    <3>1. fillLease.left > 0 /\ fillLease.left \in Nat /\ fillLease.left >= LeaseTime - request[d].age
      BY <1>1, <1>2, <2>1, <2>2, SafeLease DEF SafeCall, DueIn, FillLeaseRows
    <3>2. fillLease'.owner = fillLease.owner /\ fillLease'.left = fillLease.left - 1
      BY <1>1, <1>2, <3>1 DEF FillLeaseRows
    <3>3. d \in Filling
      BY <2>1, <2>2 DEF SafeCall, Filling
    <3>4. request'[d].age = request[d].age + 1 /\ request[d].age \in Nat
      <4>1. request'[d] = [request[d] EXCEPT !.age = @ + 1]
        BY <2>1, <3>3 DEF CacheTick
      <4> QED BY <1>1, <1>3, <2>1, <4>1 DEF RequestRows
    <3>5. fillLease'.left >= LeaseTime - request'[d].age
      BY <3>1, <3>2, <3>4, RenewalDue
    <3>6. SafeCall(d)'
      BY <1>2, <1>3, <2>1, <2>2, <3>2, <3>5 DEF SafeCall, DueIn
    <3> QED BY <2>1, <3>6
  <2>3. CASE ~SafeCall(d)
    BY <2>1, <2>3 DEF Unsafe, Asking
  <2> QED BY <2>2, <2>3
<1> QED BY <1>2, <1>4, <1>5, FewUnsafe

LEMMA FillInductive == FillInv /\ [CacheNext]_cacheVars => FillInv'
<1> SUFFICES ASSUME FillInv, [CacheNext]_cacheVars PROVE FillInv'
  OBVIOUS
<1>1. CacheInv /\ CacheInv'
  BY CacheInductive DEF FillInv
<1>2. ASSUME NEW c \in Requests, RequestStep(c) PROVE FillInv'
  <2>1. CASE Look(c)
    <3>1. (End(c, "served") \/ Become(c, "purging") \/ Become(c, "joining")) /\ UNCHANGED <<fillLease, renewal, faults>>
      BY <2>1 DEF Look
    <3> QED BY <1>1, <3>1, BecomeFills
  <2>2. CASE LookFails(c) \/ Purge(c)
    <3>1. Become(c, "joining") /\ UNCHANGED <<fillLease, renewal>> /\ faults' \in {faults, faults + 1}
      BY <2>2 DEF LookFails, Purge, Faulty
    <3> QED BY <1>1, <3>1, BecomeFills
  <2>3. CASE Join(c)
    <3> DEFINE leader == inflight[ProcessOf[c]]
               row == [request[c] EXCEPT !.pc = IF leader = Nobody THEN "acquiring" ELSE "following", !.leader = leader]
    <3>1. request' = [request EXCEPT ![c] = row] /\ UNCHANGED <<fillLease, renewal, faults>>
      BY <2>3 DEF Join
    <3>2. row.pc # "fetching" /\ row.age = request[c].age
      BY <1>1, CacheRows DEF CacheInv, RequestRows
    <3> HIDE DEF row
    <3> QED BY <1>1, <3>1, <3>2, NoNewCallOfOne
  <2>4. CASE Acquire(c) \/ Retry(c)
    BY <1>1, <2>4, AcquireFills
  <2>5. CASE Poll(c)
    <3>1. (End(c, "served") \/ Become(c, "retrying")) /\ UNCHANGED <<fillLease, renewal, faults>>
      BY <2>5 DEF Poll
    <3> QED BY <1>1, <3>1, BecomeFills
  <2>6. CASE ProceedUnleased(c)
    BY <1>1, <2>6, UnleasedFills
  <2>7. CASE AbortWait(c) \/ Answered(c)
    <3>1. (End(c, "failed") \/ Become(c, "storing")) /\ UNCHANGED <<fillLease, renewal, faults>>
      BY <2>7 DEF AbortWait, Answered
    <3> QED BY <1>1, <3>1, BecomeFills
  <2>8. CASE Store(c) \/ StoreFails(c) \/ FetchFails(c)
    <3>1. (Settle(c, TRUE) \/ Settle(c, FALSE)) /\ UNCHANGED <<fillLease, renewal>> /\ faults' \in {faults, faults + 1}
      BY <2>8 DEF Store, StoreFails, FetchFails, Faulty
    <3> QED BY <1>1, <3>1, SettleFills
  <2>9. CASE ReleaseFill(c)
    BY <1>1, <2>9, ReleaseFills
  <2>10. CASE ReleaseFillFails(c)
    <3>1. (End(c, "served") \/ End(c, "failed")) /\ UNCHANGED <<fillLease, renewal>> /\ faults' = faults + 1
      BY <2>10 DEF ReleaseFillFails, Outcome, Faulty
    <3> QED BY <1>1, <3>1, BecomeFills
  <2>11. CASE Again(c)
    <3>1. request' = [request EXCEPT ![c] = NewRequest] /\ UNCHANGED <<fillLease, renewal, faults>>
      BY <2>11 DEF Again
    <3>2. NewRequest.pc # "fetching" /\ NewRequest.age = 0
      BY DEF NewRequest
    <3> QED BY <1>1, <3>1, <3>2, NoNewCallOfOne
  <2>12. CASE SendRenewal(c) \/ Renew(c) \/ RenewFails(c)
    BY <1>1, <2>12, SendFills, RenewFills, RenewFailsFills
  <2> QED BY <1>2, <2>1, <2>2, <2>3, <2>4, <2>5, <2>6, <2>7, <2>8, <2>9, <2>10, <2>11, <2>12 DEF RequestStep
<1>3. ASSUME NEW p \in Processes, Die(p) PROVE FillInv'
  <2>1. \A d \in Requests : request'[d] \in {request[d], Ended("failed")}
    BY <1>3 DEF Die
  <2>2. Ended("failed").pc # "fetching" /\ Ended("failed").age = 0
    BY FillEnded
  <2>3. UNCHANGED <<fillLease, renewal, faults>>
    BY <1>3 DEF Die
  <2> QED BY <1>1, <2>1, <2>2, <2>3, NoNewCall
<1>4. CASE CacheTick
  BY <1>1, <1>4, TickFills
<1>5. CASE Expire \/ UNCHANGED cacheVars
  <2>1. UNCHANGED <<fillLease, renewal, faults, request>>
    BY <1>5 DEF Expire, cacheVars
  <2> QED BY <1>1, <2>1, NoNewCall
<1> QED
  BY <1>2, <1>3, <1>4, <1>5 DEF CacheNext

\* The provider is asked for a page by one request at a time, and by one more
\* for each statement on the cache tables that has failed: a request that
\* holds a lease renews it before any other obtains it.
THEOREM AskedOnce == CacheSpec => []SingleFill
<1>1. CacheInit => FillInv
  <2> SUFFICES ASSUME CacheInit PROVE FillInv
    OBVIOUS
  <2>1. CacheInv
    BY CacheInitial
  <2>2. \A c \in Requests : request[c].pc = "idle" /\ request[c].age = 0
    BY DEF CacheInit, NewRequest
  <2>3. Unsafe = {} /\ faults = 0
    BY <2>2 DEF Unsafe, Asking, CacheInit
  <2>4. Cardinality(Unsafe) <= faults
    BY <2>3, FS_EmptySet
  <2>5. AgeInv
    BY <2>2, RenewalDue DEF AgeInv
  <2> QED BY <2>1, <2>4, <2>5 DEF FillInv
<1>2. FillInv => SingleFill
  <2> SUFFICES ASSUME FillInv PROVE SingleFill
    OBVIOUS
  <2>1. /\ IsFiniteSet(Unsafe) /\ Cardinality(Unsafe) \in Nat
        /\ IsFiniteSet(Asking) /\ Cardinality(Asking) \in Nat
    <3>1. Unsafe \subseteq Requests /\ Asking \subseteq Requests
      BY DEF Unsafe, Asking
    <3>2. IsFiniteSet(Unsafe) /\ IsFiniteSet(Asking)
      BY <3>1, CacheAssumption, FS_Subset
    <3> QED BY <3>2, FS_CardinalityType
  <2>2. Cardinality(Unsafe) <= faults /\ faults \in Nat
    BY DEF FillInv, CacheInv, CacheTypeOK
  <2>3. \E c : Asking \subseteq Unsafe \cup {c}
    BY DEF Unsafe, SafeCall
  <2>4. PICK c : Asking \subseteq Unsafe \cup {c}
    BY <2>3
  <2>5. IsFiniteSet(Unsafe \cup {c}) /\ Cardinality(Unsafe \cup {c}) \in Nat
        /\ Cardinality(Unsafe \cup {c}) <= Cardinality(Unsafe) + 1
    <3>1. /\ IsFiniteSet(Unsafe \cup {c})
          /\ Cardinality(Unsafe \cup {c}) = IF c \in Unsafe THEN Cardinality(Unsafe) ELSE Cardinality(Unsafe) + 1
      BY <2>1, FS_AddElement
    <3> QED BY <2>1, <3>1
  <2>6. Cardinality(Asking) <= Cardinality(Unsafe \cup {c})
    BY <2>4, <2>5, FS_Subset
  <2>7. Cardinality(Asking) <= 1 + faults
    BY <2>1, <2>2, <2>5, <2>6
  <2> QED BY <2>7 DEF SingleFill, Asking
<1> QED
  BY <1>1, <1>2, FillInductive, PTL DEF CacheSpec

-----------------------------------------------------------------------------
(* A lease outlives the calls made under it by its own duration at most *)

LapseInv ==
    /\ fillLease.owner # Nobody /\ fillLease.left > 0 /\ Filling = {} => sinceFill + fillLease.left <= LeaseTime
    /\ renewal # {} /\ Filling = {} => sinceFill = 0
LeftInv == CacheInv /\ LapseInv

\* No call under a lease ends, and no lease is granted.
LEMMA StillFilling ==
  ASSUME LeftInv, CacheInv', Filling \subseteq Filling', UNCHANGED sinceFill, renewal' \subseteq renewal,
         fillLease' = fillLease \/ fillLease'.owner = Nobody
  PROVE  LeftInv'
BY DEF LeftInv, LapseInv

\* A call under a lease has just ended.
LEMMA JustFilled ==
  ASSUME CacheInv', sinceFill' = 0 \/ Filling' # {}
  PROVE  LeftInv'
<1>1. fillLease'.left <= LeaseTime /\ fillLease'.left \in Nat
  BY CacheAssumption DEF CacheInv, CacheTypeOK, FillLeaseRows
<1> QED BY <1>1, CacheAssumption DEF LeftInv, LapseInv

LEMMA OtherFilling ==
  ASSUME CacheInv, NEW c \in Requests, NEW row, request' = [request EXCEPT ![c] = row],
         \/ c \notin Filling
         \/ (row.pc \in {"fetching", "storing"} /\ row.leased)
  PROVE  Filling \subseteq Filling'
<1>1. request'[c] = row /\ \A d \in Requests \ {c} : request'[d] = request[d]
  BY DEF CacheInv, CacheTypeOK
<1> QED BY <1>1 DEF Filling

LEMMA NewFilling ==
  ASSUME CacheInv, NEW c \in Requests, Fetch(c, TRUE)
  PROVE  Filling' # {}
<1> DEFINE row == [request[c] EXCEPT !.pc = "fetching", !.leased = TRUE, !.waited = 0]
<1>1. request \in [Requests -> RequestRows] /\ request[c] \in RequestRows
  BY DEF CacheInv, CacheTypeOK
<1>2. row.pc = "fetching" /\ row.leased /\ request' = [request EXCEPT ![c] = row]
  BY <1>1 DEF Fetch, RequestRows
<1> HIDE DEF row
<1>3. request'[c] = row
  BY <1>1, <1>2
<1>4. c \in Filling'
  BY <1>2, <1>3 DEF Filling
<1> QED BY <1>4

LEMMA StepLapses ==
  ASSUME LeftInv, CacheInv', NEW c \in Requests, RequestStep(c)
  PROVE  LeftInv'
<1>1. CacheInv /\ request \in [Requests -> RequestRows] /\ request[c] \in RequestRows
  BY DEF LeftInv, CacheInv, CacheTypeOK
<1>2. CASE Look(c) \/ LookFails(c) \/ Purge(c) \/ Poll(c) \/ AbortWait(c) \/ ReleaseFill(c)
           \/ ReleaseFillFails(c) \/ Again(c)
  <2>1. c \notin Filling
    BY <1>2 DEF Look, LookFails, Purge, Poll, AbortWait, ReleaseFill, ReleaseFillFails, Again, EndStates, Filling
  <2>2. \E row : request' = [request EXCEPT ![c] = row]
    BY <1>2 DEF Look, LookFails, Purge, Poll, AbortWait, ReleaseFill, ReleaseFillFails, Again, Become, End
  <2>3. Filling \subseteq Filling'
    BY <1>1, <2>1, <2>2, OtherFilling
  <2>4. UNCHANGED <<sinceFill, renewal>> /\ (fillLease' = fillLease \/ fillLease'.owner = Nobody)
    BY <1>2 DEF Look, LookFails, Purge, Poll, AbortWait, ReleaseFill, ReleaseFillFails, Again
  <2> QED BY <2>3, <2>4, StillFilling
<1>3. CASE Join(c)
  <2>1. c \notin Filling /\ UNCHANGED <<sinceFill, renewal, fillLease>>
    BY <1>3 DEF Join, Filling
  <2>2. \E row : request' = [request EXCEPT ![c] = row]
    BY <1>3 DEF Join
  <2>3. Filling \subseteq Filling'
    BY <1>1, <2>1, <2>2, OtherFilling
  <2> QED BY <2>1, <2>3, StillFilling
<1>4. CASE (Acquire(c) \/ Retry(c)) /\ Obtains(c)
  <2>1. Fetch(c, TRUE)
    BY <1>4 DEF Acquire, Retry
  <2> QED BY <1>1, <2>1, NewFilling, JustFilled
<1>5. CASE (Acquire(c) \/ Retry(c)) /\ ~Obtains(c)
  <2>1. c \notin Filling /\ UNCHANGED <<sinceFill, renewal, fillLease>>
    BY <1>5 DEF Acquire, Retry, Filling
  <2>2. \E row : request' = [request EXCEPT ![c] = row]
    BY <1>5 DEF Acquire, Retry, Become
  <2>3. Filling \subseteq Filling'
    BY <1>1, <2>1, <2>2, OtherFilling
  <2> QED BY <2>1, <2>3, StillFilling
<1>6. CASE ProceedUnleased(c)
  <2>1. c \notin Filling /\ UNCHANGED <<sinceFill, renewal, fillLease>>
    BY <1>6 DEF ProceedUnleased, Filling
  <2>2. \E row : request' = [request EXCEPT ![c] = row]
    BY <1>6 DEF ProceedUnleased, Fetch
  <2>3. Filling \subseteq Filling'
    BY <1>1, <2>1, <2>2, OtherFilling
  <2> QED BY <2>1, <2>3, StillFilling
<1>7. CASE Answered(c)
  <2> DEFINE row == [request[c] EXCEPT !.pc = "storing"]
  <2>1. /\ request' = [request EXCEPT ![c] = row] /\ row.pc = "storing" /\ row.leased = request[c].leased
        /\ UNCHANGED <<sinceFill, renewal, fillLease>>
    BY <1>1, <1>7 DEF Answered, Become, RequestRows
  <2> HIDE DEF row
  <2>2. Filling \subseteq Filling'
    BY <1>1, <2>1, OtherFilling DEF Filling
  <2> QED BY <2>1, <2>2, StillFilling
<1>8. CASE Store(c) \/ StoreFails(c) \/ FetchFails(c)
  <2>1. /\ Settle(c, TRUE) \/ Settle(c, FALSE)
        /\ UNCHANGED <<renewal, fillLease>>
    BY <1>8 DEF Store, StoreFails, FetchFails
  <2>2. CASE request[c].leased
    BY <2>1, <2>2, JustFilled DEF Settle
  <2>3. CASE ~request[c].leased
    <3>1. ASSUME NEW d \in Filling PROVE request'[d] = request[d]
      BY <2>1, <2>3 DEF Settle, Filling
    <3>2. Filling \subseteq Filling'
      BY <3>1 DEF Filling
    <3>3. sinceFill' = sinceFill
      BY <2>1, <2>3 DEF Settle
    <3> QED BY <2>1, <3>2, <3>3, StillFilling
  <2> QED BY <2>2, <2>3
<1>9. CASE SendRenewal(c)
  <2> DEFINE row == [request[c] EXCEPT !.age = 0]
  <2>1. /\ request' = [request EXCEPT ![c] = row] /\ row.pc = request[c].pc /\ row.leased = request[c].leased
        /\ c \in Filling
    BY <1>1, <1>9 DEF SendRenewal, RequestRows
  <2> HIDE DEF row
  <2>2. Filling \subseteq Filling'
    BY <1>1, <2>1, OtherFilling DEF Filling
  <2> QED BY <2>1, <2>2, JustFilled
<1>10. CASE Renew(c)
  <2>1. c \in renewal /\ Filling' = Filling /\ sinceFill' = sinceFill
    BY <1>10 DEF Renew, Filling
  <2> QED BY <2>1, JustFilled DEF LeftInv, LapseInv
<1>11. CASE RenewFails(c)
  <2>1. UNCHANGED <<fillLease, sinceFill>> /\ Filling' = Filling /\ renewal' \subseteq renewal
    BY <1>11 DEF RenewFails, Filling
  <2> QED BY <2>1, StillFilling
<1> QED
  BY <1>2, <1>3, <1>4, <1>5, <1>6, <1>7, <1>8, <1>9, <1>10, <1>11 DEF RequestStep

LEMMA DieLapses ==
  ASSUME LeftInv, CacheInv', NEW p \in Processes, Die(p)
  PROVE  LeftInv'
<1>1. CASE Filling \cap OfProcess(p) # {}
  BY <1>1, JustFilled DEF Die
<1>2. CASE Filling \cap OfProcess(p) = {}
  <2>1. UNCHANGED <<fillLease, renewal, sinceFill>>
    BY <1>2 DEF Die
  <2>2. ASSUME NEW d \in Filling PROVE d \in Requests /\ request'[d] = request[d]
    BY <1>2 DEF Die, Filling
  <2>3. Filling \subseteq Filling'
    BY <2>2 DEF Filling
  <2> QED BY <2>1, <2>3, StillFilling
<1> QED BY <1>1, <1>2

LEMMA TickLapses ==
  ASSUME LeftInv, CacheInv', CacheTick
  PROVE  LeftInv'
<1>1. /\ request \in [Requests -> RequestRows] /\ fillLease \in FillLeaseRows /\ sinceFill \in Nat
      /\ renewal = {} /\ renewal' = {}
      /\ fillLease' = [fillLease EXCEPT !.left = IF @ = 0 THEN 0 ELSE @ - 1]
      /\ sinceFill' \in {sinceFill, sinceFill + 1}
  BY DEF LeftInv, CacheInv, CacheTypeOK, CacheTick, Timely
<1>2. ASSUME NEW d \in Filling PROVE d \in Filling'
  <2>1. d \in Requests /\ request'[d] = [request[d] EXCEPT !.age = @ + 1] /\ request[d] \in RequestRows
    BY <1>1 DEF CacheTick, Filling
  <2> QED BY <2>1 DEF Filling, RequestRows
<1>3. CASE Filling # {}
  BY <1>2, <1>3, JustFilled
<1>4. CASE Filling = {}
  <2>1. fillLease.left \in Nat /\ fillLease'.owner = fillLease.owner
        /\ fillLease'.left = IF fillLease.left = 0 THEN 0 ELSE fillLease.left - 1
    BY <1>1 DEF FillLeaseRows
  <2>2. fillLease'.owner # Nobody /\ fillLease'.left > 0 => sinceFill' + fillLease'.left <= LeaseTime
    BY <1>1, <1>4, <2>1, CacheAssumption DEF LeftInv, LapseInv
  <2> QED BY <1>1, <2>2 DEF LeftInv, LapseInv
<1> QED BY <1>3, <1>4

LEMMA LapseInvariant == CacheSpec => []LeftInv
<1>1. CacheInit => LeftInv
  BY CacheInitial DEF CacheInit, LeftInv, LapseInv
<1>2. LeftInv /\ [CacheNext]_cacheVars => LeftInv'
  <2> SUFFICES ASSUME LeftInv, [CacheNext]_cacheVars PROVE LeftInv'
    OBVIOUS
  <2>1. CacheInv'
    BY CacheInductive DEF LeftInv
  <2>2. CASE Expire \/ UNCHANGED cacheVars
    <3>1. UNCHANGED <<fillLease, renewal, sinceFill, request>>
      BY <2>2 DEF Expire, cacheVars
    <3>2. Filling' = Filling
      BY <3>1 DEF Filling
    <3> QED BY <2>1, <3>1, <3>2, StillFilling
  <2> QED BY <2>1, <2>2, StepLapses, DieLapses, TickLapses DEF CacheNext
<1> QED BY <1>1, <1>2, PTL DEF CacheSpec

\* A request that gives up has waited for a call that was under way during its
\* wait: what a process that died left of its lease, or what a renewal made of
\* a released one, is over before the wait is.
THEOREM BusyForFill == CacheSpec => BusyWhileFilled
<1>1. LeftInv /\ [CacheNext]_cacheVars =>
        [\A c \in Requests : GivesUp(c) => Filling # {} \/ sinceFill < request[c].waited]_cacheVars
  <2> SUFFICES ASSUME LeftInv, CacheNext, NEW c \in Requests, GivesUp(c), Filling = {}
               PROVE  sinceFill < request[c].waited
    OBVIOUS
  <2>1. /\ request \in [Requests -> RequestRows] /\ \A d \in Requests : request[d] \in RequestRows
        /\ fillLease \in FillLeaseRows /\ sinceFill \in Nat
    BY DEF LeftInv, CacheInv, CacheTypeOK
  <2>2. request[c].pc # "busy" /\ request'[c].pc = "busy"
    BY DEF GivesUp
  <2>3. Retry(c) /\ ~Obtains(c) /\ request[c].waited >= Polls
    <3>1. ASSUME NEW d \in Requests, NEW row, request' = [request EXCEPT ![d] = row], row.pc # "busy" PROVE FALSE
      BY <2>1, <2>2, <3>1
    <3>2. ASSUME NEW d \in Requests, NEW pc, pc # "busy", Become(d, pc) \/ End(d, pc) PROVE FALSE
      <4> DEFINE row == [request[d] EXCEPT !.pc = pc]
      <4>1. row.pc = pc /\ Ended(pc).pc = pc
        BY <2>1, FillEnded DEF RequestRows
      <4>2. (Become(d, pc) => request' = [request EXCEPT ![d] = row])
            /\ (End(d, pc) => request' = [request EXCEPT ![d] = Ended(pc)])
        BY DEF Become, End
      <4> HIDE DEF row
      <4> QED BY <3>1, <3>2, <4>1, <4>2
    <3>3. ASSUME NEW d \in Requests, NEW leased, Fetch(d, leased) PROVE FALSE
      <4> DEFINE row == [request[d] EXCEPT !.pc = "fetching", !.leased = leased, !.waited = 0]
      <4>1. row.pc = "fetching"
        BY <2>1 DEF RequestRows
      <4>2. request' = [request EXCEPT ![d] = row]
        BY <3>3 DEF Fetch
      <4> HIDE DEF row
      <4> QED BY <3>1, <4>1, <4>2
    <3>4. ASSUME NEW d \in Requests, NEW ok \in BOOLEAN, Settle(d, ok) PROVE FALSE
      <4>1. request'[c] \in {request[c], Ended(Outcome(ok)), [Ended("releasing") EXCEPT !.ok = ok]}
        BY <3>4 DEF Settle
      <4>2. [Ended("releasing") EXCEPT !.ok = ok].pc = "releasing"
        BY DEF Ended, NewRequest
      <4>3. Ended(Outcome(ok)).pc = Outcome(ok) /\ Outcome(ok) # "busy"
        BY FillEnded DEF Outcome
      <4> QED BY <2>2, <4>1, <4>2, <4>3
    <3>5. ASSUME NEW d \in Requests, RequestStep(d) PROVE Retry(d) /\ ~Obtains(d)
      <4>1. ~(Look(d) \/ LookFails(d) \/ Purge(d) \/ Poll(d) \/ AbortWait(d) \/ Answered(d))
        BY <3>2 DEF Look, LookFails, Purge, Poll, AbortWait, Answered
      <4>2. ~(ReleaseFill(d) \/ ReleaseFillFails(d))
        <5>1. Outcome(request[d].ok) # "busy"
          BY DEF Outcome
        <5> QED BY <3>2, <5>1 DEF ReleaseFill, ReleaseFillFails
      <4>3. ~(Store(d) \/ StoreFails(d) \/ FetchFails(d))
        BY <3>4 DEF Store, StoreFails, FetchFails
      <4>4. ~ProceedUnleased(d)
        BY <3>3 DEF ProceedUnleased
      <4>5. ~Acquire(d)
        BY <3>2, <3>3 DEF Acquire
      <4>6. ~(Retry(d) /\ Obtains(d))
        BY <3>3 DEF Retry
      <4>7. ~(Renew(d) \/ RenewFails(d))
        BY <2>2 DEF Renew, RenewFails
      <4>8. ~Join(d)
        <5> SUFFICES ASSUME Join(d) PROVE FALSE
          OBVIOUS
        <5> DEFINE leader == inflight[ProcessOf[d]]
                   row == [request[d] EXCEPT !.pc = IF leader = Nobody THEN "acquiring" ELSE "following", !.leader = leader]
        <5>1. request' = [request EXCEPT ![d] = row]
          BY DEF Join
        <5>2. row.pc # "busy"
          BY <2>1 DEF RequestRows
        <5> HIDE DEF row
        <5> QED BY <3>1, <5>1, <5>2
      <4>9. ~Again(d)
        <5>1. NewRequest.pc # "busy"
          BY DEF NewRequest
        <5> QED BY <3>1, <5>1 DEF Again
      <4>10. ~SendRenewal(d)
        <5> SUFFICES ASSUME SendRenewal(d) PROVE FALSE
          OBVIOUS
        <5> DEFINE row == [request[d] EXCEPT !.age = 0]
        <5>1. request' = [request EXCEPT ![d] = row] /\ row.pc = request[d].pc /\ row.pc # "busy"
          BY <2>1 DEF SendRenewal, Filling, RequestRows
        <5> HIDE DEF row
        <5> QED BY <3>1, <5>1
      <4> QED BY <3>5, <4>1, <4>2, <4>3, <4>4, <4>5, <4>6, <4>7, <4>8, <4>9, <4>10 DEF RequestStep
    <3>6. ASSUME NEW d \in Requests, Retry(d), ~Obtains(d) PROVE d = c /\ request[c].waited >= Polls
      <4>1. Become(d, IF request[d].waited >= Polls THEN "busy" ELSE "sleeping")
        BY <3>6 DEF Retry
      <4>2. request[d].waited >= Polls
        BY <3>2, <4>1
      <4>3. c # d => request'[c] = request[c]
        BY <2>1, <4>1 DEF Become
      <4> QED BY <2>2, <4>2, <4>3
    <3>7. ~CacheTick
      <4> SUFFICES ASSUME CacheTick PROVE FALSE
        OBVIOUS
      <4>1. CASE request[c].pc = "sleeping"
        <5>1. request'[c] = [request[c] EXCEPT !.pc = "polling", !.waited = @ + 1]
          BY <4>1 DEF CacheTick, Filling
        <5> QED BY <2>1, <2>2, <5>1 DEF RequestRows
      <4>2. CASE request[c].pc # "sleeping"
        <5>1. request'[c] = request[c]
          BY <4>2 DEF CacheTick
        <5> QED BY <2>2, <5>1
      <4> QED BY <4>1, <4>2
    <3>8. \A p \in Processes : ~Die(p)
      <4>1. \A p \in Processes : Die(p) => request'[c] \in {request[c], Ended("failed")}
        BY DEF Die
      <4>2. Ended("failed").pc = "failed"
        BY FillEnded
      <4> QED BY <2>2, <4>1, <4>2
    <3>9. ~Expire
      BY <2>2 DEF Expire
    <3>10. PICK d \in Requests : RequestStep(d)
      BY <3>7, <3>8, <3>9 DEF CacheNext
    <3> QED BY <3>5, <3>6, <3>10
  <2>4. fillLease.owner # Nobody /\ fillLease.left > 0 /\ fillLease.left \in Nat
    BY <2>1, <2>3 DEF Obtains, FillLeaseRows
  <2>5. sinceFill + fillLease.left <= LeaseTime
    BY <2>4 DEF LeftInv, LapseInv
  <2>6. request[c].waited \in Nat
    BY <2>1 DEF RequestRows
  <2> QED BY <2>1, <2>3, <2>4, <2>5, <2>6, CacheAssumption DEF Polls
<1> QED BY <1>1, LapseInvariant, PTL DEF CacheSpec, BusyWhileFilled

-----------------------------------------------------------------------------
(****************************************************************************)
(* CostLedger.  Every answer that is handed on has its cost in the ledger  *)
(* exactly once: a reservation is charged when and only when it is         *)
(* reconciled, and it is reconciled once, since the execution that shares  *)
(* its key finds it settled.  And the columns of a run are the sums over   *)
(* its rows, from which the budget and the ceiling follow: what a step     *)
(* does to a column is what it does to the weight of one reservation, or,  *)
(* for the sweep of lapsed ones, to those of a part of the keys.           *)
(****************************************************************************)

(* The inductive invariant *)

\* The rows, without the columns of the runs, which are sums.
LedgerRowsOK ==
    /\ reservation \in [Keys -> ReservationRows]
    /\ ledger \in [Keys -> [rows : Nat, sum : Nat]]
    /\ paid \in [Callers -> CallRows]
    /\ \A e \in Callers : paid[e].pc # "idle" => paid[e].key \in Keys

Settled(k) == reservation[k].status \in SettledStates
ChargedOnce(k) == ledger[k].rows = 1 /\ ledger[k].sum = reservation[k].actual
NotCharged(k) == ledger[k].rows = 0 /\ ledger[k].sum = 0
LedgerInv == \A k \in Keys : IF Settled(k) THEN ChargedOnce(k) ELSE NotCharged(k)
EvidenceInv == \A k \in evidence : k \in Keys /\ Settled(k)

Accounts == LedgerRowsOK /\ LedgerInv /\ EvidenceInv

-----------------------------------------------------------------------------
(* Steps *)

LEMMA PaidRow ==
  ASSUME LedgerRowsOK, NEW e \in Callers
  PROVE  /\ paid[e] \in CallRows
         /\ paid[e].pc # "idle" => paid[e].key \in Keys
BY DEF LedgerRowsOK

\* What a step does to the executions' calls keeps their types.
LEMMA PaysType ==
  ASSUME LedgerRowsOK, NEW e \in Callers, NEW k \in Keys, Pays(e, k)
  PROVE  /\ paid' \in [Callers -> CallRows]
         /\ \A f \in Callers : paid'[f].pc # "idle" => paid'[f].key \in Keys
BY DEF Pays, LedgerRowsOK, CallRows

LEMMA EndsType ==
  ASSUME LedgerRowsOK, NEW e \in Callers, paid' = [paid EXCEPT ![e] = NoCall]
  PROVE  /\ paid' \in [Callers -> CallRows]
         /\ \A f \in Callers : paid'[f].pc # "idle" => paid'[f].key \in Keys
BY DEF LedgerRowsOK, CallRows, NoCall

\* Releasing what has lapsed settles nothing.
LEMMA SweptRow ==
  ASSUME LedgerRowsOK, NEW k \in Keys
  PROVE  /\ Swept(k) \in ReservationRows
         /\ Swept(k).status \in SettledStates <=> Settled(k)
         /\ Swept(k).actual = reservation[k].actual
<1>1. reservation[k] \in ReservationRows
  BY DEF LedgerRowsOK
<1>2. CASE k \in Lapsed
  BY <1>1, <1>2 DEF Swept, Lapsed, Held, ReservationRows, SettledStates, Settled
<1>3. CASE k \notin Lapsed
  BY <1>1, <1>3 DEF Swept, SettledStates, Settled
<1> QED
  BY <1>2, <1>3

\* A step that neither settles a reservation nor writes the ledger nor hands
\* on an answer.
LEMMA KeepsAccounts ==
  ASSUME Accounts,
         reservation' \in [Keys -> ReservationRows],
         \A k \in Keys : /\ (reservation'[k].status \in SettledStates <=> Settled(k))
                         /\ Settled(k) => reservation'[k].actual = reservation[k].actual,
         paid' \in [Callers -> CallRows],
         \A e \in Callers : paid'[e].pc # "idle" => paid'[e].key \in Keys,
         UNCHANGED <<ledger, evidence>>
  PROVE  Accounts'
<1>1. LedgerRowsOK'
  BY DEF Accounts, LedgerRowsOK
<1>2. LedgerInv'
  BY DEF Accounts, LedgerInv, Settled, ChargedOnce, NotCharged
<1>3. EvidenceInv'
  BY DEF Accounts, EvidenceInv, Settled
<1> QED
  BY <1>1, <1>2, <1>3 DEF Accounts

\* The same for a step that leaves the reservations alone.
LEMMA KeepsReservations ==
  ASSUME Accounts, UNCHANGED <<reservation, ledger, evidence>>,
         paid' \in [Callers -> CallRows],
         \A e \in Callers : paid'[e].pc # "idle" => paid'[e].key \in Keys
  PROVE  Accounts'
<1>1. reservation' \in [Keys -> ReservationRows]
  BY DEF Accounts, LedgerRowsOK
<1>2. \A k \in Keys : /\ (reservation'[k].status \in SettledStates <=> Settled(k))
                      /\ reservation'[k].actual = reservation[k].actual
  BY DEF Settled
<1> QED
  BY <1>1, <1>2, KeepsAccounts

LEMMA PaidKept ==
  ASSUME LedgerRowsOK, UNCHANGED paid
  PROVE  /\ paid' \in [Callers -> CallRows]
         /\ \A e \in Callers : paid'[e].pc # "idle" => paid'[e].key \in Keys
BY DEF LedgerRowsOK

LEMMA ReuseAccounts ==
  ASSUME Accounts, NEW e \in Callers, NEW k \in Keys, Reuse(e, k)
  PROVE  Accounts'
<1>1. LedgerRowsOK /\ reservation' = [i \in Keys |-> Swept(i)] /\ UNCHANGED <<ledger, evidence>> /\ Pays(e, k)
  BY DEF Accounts, Reuse
<1>2. reservation' \in [Keys -> ReservationRows]
  BY <1>1, SweptRow
<1>3. \A i \in Keys : /\ (reservation'[i].status \in SettledStates <=> Settled(i))
                      /\ reservation'[i].actual = reservation[i].actual
  BY <1>1, SweptRow
<1> QED
  BY <1>1, <1>2, <1>3, PaysType, KeepsAccounts

\* A key that is reserved anew is not settled.
LEMMA ReserveAccounts ==
  ASSUME Accounts, NEW e \in Callers, NEW k \in Keys, Reserve(e, k)
  PROVE  Accounts'
<1> DEFINE fresh == [status |-> "reserved", amount |-> CallLimit, actual |-> 0, lapsed |-> FALSE]
<1>1. /\ LedgerRowsOK /\ UNCHANGED <<ledger, evidence>> /\ Pays(e, k)
      /\ reservation' = [i \in Keys |-> IF i = k THEN fresh ELSE Swept(i)]
  BY DEF Accounts, Reserve
<1>2. fresh \in ReservationRows /\ fresh.status \notin SettledStates
  BY LedgerAssumption DEF ReservationRows, SettledStates
<1>3. ~Settled(k)
  BY DEF Reserve, Reusable, Lapsed, Held, Settled, SettledStates
<1> HIDE DEF fresh
<1>4. reservation' \in [Keys -> ReservationRows]
  BY <1>1, <1>2, SweptRow
<1>5. \A i \in Keys : /\ (reservation'[i].status \in SettledStates <=> Settled(i))
                      /\ Settled(i) => reservation'[i].actual = reservation[i].actual
  BY <1>1, <1>2, <1>3, SweptRow
<1> QED
  BY <1>1, <1>4, <1>5, PaysType, KeepsAccounts

LEMMA AnswerAccounts ==
  ASSUME Accounts, NEW e \in Callers, Answer(e)
  PROVE  Accounts'
<1>1. LedgerRowsOK /\ UNCHANGED <<reservation, ledger, evidence>> /\ paid[e].pc = "calling"
  BY DEF Accounts, Answer
<1>2. PICK price \in Costs : paid' = [paid EXCEPT ![e].pc = "answered", ![e].cost = price]
  BY DEF Answer
<1>3. paid[e] \in CallRows /\ paid[e].key \in Keys /\ price \in Nat
  BY <1>1, PaidRow, LedgerAssumption
<1>4. paid' \in [Callers -> CallRows]
  BY <1>1, <1>2, <1>3 DEF LedgerRowsOK, CallRows
<1>5. \A f \in Callers : paid'[f].pc # "idle" => paid'[f].key \in Keys
  BY <1>1, <1>2, <1>3 DEF LedgerRowsOK, CallRows
<1> QED
  BY <1>1, <1>4, <1>5, KeepsReservations

LEMMA FailAccounts ==
  ASSUME Accounts, NEW e \in Callers, Fail(e)
  PROVE  Accounts'
<1>1. LedgerRowsOK /\ UNCHANGED <<reservation, ledger, evidence>> /\ paid[e].pc = "calling"
      /\ paid' = [paid EXCEPT ![e].pc = "failed"]
  BY DEF Accounts, Fail
<1>2. paid[e] \in CallRows /\ paid[e].key \in Keys
  BY <1>1, PaidRow
<1>3. paid' \in [Callers -> CallRows]
  BY <1>1, <1>2 DEF LedgerRowsOK, CallRows
<1>4. \A f \in Callers : paid'[f].pc # "idle" => paid'[f].key \in Keys
  BY <1>1, <1>2 DEF LedgerRowsOK, CallRows
<1> QED
  BY <1>1, <1>3, <1>4, KeepsReservations

LEMMA ReleaseAccounts ==
  ASSUME Accounts, NEW e \in Callers, Release(e)
  PROVE  Accounts'
<1> DEFINE k == paid[e].key
<1>1. /\ LedgerRowsOK /\ UNCHANGED <<ledger, evidence>> /\ paid[e].pc = "failed"
      /\ paid' = [paid EXCEPT ![e] = NoCall]
  BY DEF Accounts, Release
<1>2. k \in Keys /\ reservation[k] \in ReservationRows
  BY <1>1, PaidRow DEF LedgerRowsOK
<1>3. CASE Releasable(k)
  <2>1. reservation[k].status = "reserved" /\ reservation' = [reservation EXCEPT ![k].status = "released"]
    BY <1>3 DEF Release, Releasable
  <2>2. reservation' \in [Keys -> ReservationRows]
    BY <1>1, <1>2, <2>1 DEF LedgerRowsOK, ReservationRows
  <2>3. \A i \in Keys : /\ (reservation'[i].status \in SettledStates <=> Settled(i))
                        /\ reservation'[i].actual = reservation[i].actual
    BY <1>1, <1>2, <2>1 DEF LedgerRowsOK, ReservationRows, Settled, SettledStates
  <2> QED
    BY <1>1, <2>2, <2>3, EndsType, KeepsAccounts
<1>4. CASE ~Releasable(k)
  BY <1>1, <1>4, EndsType, KeepsReservations DEF Release
<1> QED
  BY <1>3, <1>4

\* The one step that charges: the reservation was held, so that nothing was
\* charged for it before.
LEMMA ReconcileAccounts ==
  ASSUME Accounts, NEW e \in Callers, Reconcile(e)
  PROVE  Accounts'
<1> DEFINE k == paid[e].key
           price == paid[e].cost
           row == [status |-> IF Overruns(k, price) THEN "reconciled_overrun" ELSE "reconciled",
                   amount |-> reservation[k].amount, actual |-> price, lapsed |-> FALSE]
           charge == [rows |-> ledger[k].rows + 1, sum |-> ledger[k].sum + price]
<1>1. /\ LedgerRowsOK /\ paid[e].pc = "answered" /\ paid' = [paid EXCEPT ![e] = NoCall]
      /\ reservation[k].status = "reserved"
      /\ reservation' = [reservation EXCEPT ![k] = row] /\ ledger' = [ledger EXCEPT ![k] = charge]
      /\ evidence' \in {evidence, evidence \cup {k}}
  BY DEF Accounts, Reconcile
<1>2. k \in Keys /\ reservation[k] \in ReservationRows /\ price \in Nat
  BY <1>1, PaidRow DEF LedgerRowsOK, CallRows
<1>3. row \in ReservationRows /\ row.status \in SettledStates /\ row.actual = price
  BY <1>2 DEF ReservationRows, SettledStates
<1>4. charge \in [rows : Nat, sum : Nat] /\ charge.rows = 1 /\ charge.sum = price
  <2>1. NotCharged(k)
    BY <1>1, <1>2 DEF Accounts, LedgerInv, Settled, SettledStates
  <2> QED
    BY <1>2, <2>1 DEF NotCharged
<1> HIDE DEF row, charge
<1>5. LedgerRowsOK'
  BY <1>1, <1>2, <1>3, <1>4, EndsType DEF LedgerRowsOK
<1>6. reservation'[k] = row /\ ledger'[k] = charge
  BY <1>1, <1>2 DEF LedgerRowsOK
<1>7. \A i \in Keys \ {k} : reservation'[i] = reservation[i] /\ ledger'[i] = ledger[i]
  BY <1>1 DEF LedgerRowsOK
<1>8. LedgerInv'
  BY <1>2, <1>3, <1>4, <1>6, <1>7 DEF Accounts, LedgerInv, Settled, ChargedOnce, NotCharged
<1>9. EvidenceInv'
  BY <1>1, <1>2, <1>3, <1>6, <1>7 DEF Accounts, EvidenceInv, Settled
<1> QED
  BY <1>5, <1>8, <1>9 DEF Accounts

LEMMA ReconcileAgainAccounts ==
  ASSUME Accounts, NEW e \in Callers, ReconcileAgain(e)
  PROVE  Accounts'
<1>1. /\ LedgerRowsOK /\ UNCHANGED <<reservation, ledger>> /\ paid[e].pc = "answered"
      /\ paid' = [paid EXCEPT ![e] = NoCall]
      /\ Settled(paid[e].key) /\ evidence' = evidence \cup {paid[e].key}
  BY DEF Accounts, ReconcileAgain, Settled
<1>2. paid[e].key \in Keys
  BY <1>1, PaidRow
<1>3. LedgerRowsOK'
  BY <1>1, EndsType DEF LedgerRowsOK
<1>4. LedgerInv' /\ EvidenceInv'
  BY <1>1, <1>2 DEF Accounts, LedgerInv, EvidenceInv, Settled, ChargedOnce, NotCharged
<1> QED
  BY <1>3, <1>4 DEF Accounts

LEMMA LapseAccounts ==
  ASSUME Accounts, NEW k \in Keys, Lapse(k)
  PROVE  Accounts'
<1>1. /\ LedgerRowsOK /\ UNCHANGED <<ledger, evidence, paid>>
      /\ reservation' = [reservation EXCEPT ![k].lapsed = TRUE]
  BY DEF Accounts, Lapse
<1>2. reservation[k] \in ReservationRows
  BY <1>1 DEF LedgerRowsOK
<1>3. reservation' \in [Keys -> ReservationRows]
  BY <1>1, <1>2 DEF LedgerRowsOK, ReservationRows
<1>4. \A i \in Keys : /\ (reservation'[i].status \in SettledStates <=> Settled(i))
                      /\ reservation'[i].actual = reservation[i].actual
  BY <1>1, <1>2 DEF LedgerRowsOK, ReservationRows, Settled
<1> QED
  BY <1>1, <1>3, <1>4, PaidKept, KeepsAccounts

-----------------------------------------------------------------------------
(* The theorem *)

LEMMA LedgerInitial == LedgerInit => Accounts
<1> SUFFICES ASSUME LedgerInit PROVE Accounts
  OBVIOUS
<1>1. LedgerRowsOK
  BY DEF LedgerInit, LedgerRowsOK, ReservationRows, CallRows, NoCall
<1>2. LedgerInv /\ EvidenceInv
  BY DEF LedgerInit, LedgerInv, EvidenceInv, Settled, SettledStates, NotCharged
<1> QED
  BY <1>1, <1>2 DEF Accounts

LEMMA LedgerInductive == Accounts /\ [LedgerNext]_ledgerVars => Accounts'
<1> SUFFICES ASSUME Accounts, [LedgerNext]_ledgerVars PROVE Accounts'
  OBVIOUS
<1>1. LedgerRowsOK
  BY DEF Accounts
<1>2. ASSUME NEW e \in Callers, NEW k \in Keys, Reuse(e, k) \/ Reserve(e, k) PROVE Accounts'
  BY <1>2, ReuseAccounts, ReserveAccounts
<1>3. ASSUME NEW e \in Callers,
             \/ Answer(e) \/ Reconcile(e) \/ ReconcileAgain(e) \/ ReconcileRefused(e)
             \/ Fail(e) \/ Release(e) \/ Crash(e)
      PROVE  Accounts'
  <2>1. CASE ReconcileRefused(e)
    BY <1>1, <2>1, EndsType, KeepsReservations DEF ReconcileRefused
  <2>2. CASE Crash(e)
    BY <1>1, <2>2, EndsType, KeepsReservations DEF Crash
  <2> QED
    BY <1>3, <2>1, <2>2, AnswerAccounts, ReconcileAccounts, ReconcileAgainAccounts, FailAccounts,
       ReleaseAccounts
<1>4. ASSUME NEW r \in Runs, Approve(r) \/ ApprovalExpires(r) \/ CancelAccount(r) PROVE Accounts'
  <2>1. UNCHANGED <<reservation, ledger, evidence, paid>>
    BY <1>4 DEF Approve, ApprovalExpires, CancelAccount
  <2> QED
    BY <1>1, <2>1, PaidKept, KeepsReservations
<1>5. ASSUME NEW k \in Keys, Lapse(k) PROVE Accounts'
  BY <1>5, LapseAccounts
<1>6. CASE NewMonth \/ UNCHANGED ledgerVars
  <2>1. UNCHANGED <<reservation, ledger, evidence, paid>>
    BY <1>6 DEF NewMonth, ledgerVars
  <2> QED
    BY <1>1, <2>1, PaidKept, KeepsReservations
<1> QED
  BY <1>2, <1>3, <1>4, <1>5, <1>6 DEF LedgerNext

\* No answer is handed on whose cost is not in the ledger exactly once, also
\* when two executions share the reservation of its call.
THEOREM AnswersAccounted == LedgerSpec => []EvidenceAccounted
<1>1. Accounts => EvidenceAccounted
  BY DEF Accounts, LedgerInv, EvidenceInv, ChargedOnce, EvidenceAccounted
<1> QED
  BY <1>1, LedgerInitial, LedgerInductive, PTL DEF LedgerSpec

-----------------------------------------------------------------------------
(* What the columns add up to *)

\* What a reservation weighs in the columns: what it holds, what it was
\* charged, and what its charge had beyond it.
HoldOf == [k \in Keys |-> IF reservation[k].status = "reserved" THEN reservation[k].amount ELSE 0]
ChargeOf == [k \in Keys |-> ledger[k].sum]
ExcessOf == [k \in Keys |-> IF reservation[k].status = "reconciled_overrun"
                            THEN Less(reservation[k].actual, reservation[k].amount) ELSE 0]

Columns == \A r \in Runs :
    /\ account[r].reserved = Total(HoldOf, KeysOf(r))
    /\ account[r].actual = Total(ChargeOf, KeysOf(r))
RunLimits == \A r \in Runs :
    account[r].actual + account[r].reserved <= account[r].approved + Total(ExcessOf, KeysOf(r))
MonthLimit == month + Total(HoldOf, Keys) <= Ceiling + Total(ExcessOf, Keys)

AccountsOK ==
    /\ account \in [Runs -> AccountRows]
    /\ month \in Nat /\ lapses \in Nat /\ breaks \in Nat /\ months \in Nat

Books == Accounts /\ AccountsOK /\ Columns /\ RunLimits /\ MonthLimit

\* Each sum of the ledger is the total of such weights.
LEMMA AmountIs ==
  ASSUME NEW S, IsFiniteSet(S), NEW w, \A k \in S : w[k] = reservation[k].amount
  PROVE  Amount(S) = Total(w, S)
<1> DEFINE Sums(g) == g = [R \in SUBSET S |-> IF R = {} THEN 0
                             ELSE reservation[Pick(R)].amount + g[R \ {Pick(R)}]]
<1>1. Amount(S) = (CHOOSE g : Sums(g))[S]
  BY DEF Amount, MapThenSumSet, MapThenFoldSet, Pick
<1>2. \A R \in SUBSET S : R # {} => w[Pick(R)] = reservation[Pick(R)].amount
  BY Picked
<1>3. ASSUME NEW g PROVE Sums(g) <=> Adds(g, w, S)
  BY <1>2 DEF Adds
<1>4. \E g : Sums(g)
  BY <1>3, AdderExists
<1> DEFINE h == CHOOSE g : Sums(g)
<1>5. Sums(h)
  <2> HIDE DEF Sums
  <2> QED BY <1>4
<1>6. Amount(S) = h[S]
  BY <1>1
<1> HIDE DEF h, Sums
<1> QED BY <1>3, <1>5, <1>6, TotalIs

\* The same for what was charged.
LEMMA ChargesAre ==
  ASSUME NEW S, IsFiniteSet(S), NEW w, \A k \in S : w[k] = ledger[k].sum
  PROVE  MapThenSumSet(LAMBDA k : ledger[k].sum, S) = Total(w, S)
<1> DEFINE Sums(g) == g = [R \in SUBSET S |-> IF R = {} THEN 0
                             ELSE ledger[Pick(R)].sum + g[R \ {Pick(R)}]]
<1>1. MapThenSumSet(LAMBDA k : ledger[k].sum, S) = (CHOOSE g : Sums(g))[S]
  BY DEF MapThenSumSet, MapThenFoldSet, Pick
<1>2. \A R \in SUBSET S : R # {} => w[Pick(R)] = ledger[Pick(R)].sum
  BY Picked
<1>3. ASSUME NEW g PROVE Sums(g) <=> Adds(g, w, S)
  BY <1>2 DEF Adds
<1>4. \E g : Sums(g)
  BY <1>3, AdderExists
<1> DEFINE h == CHOOSE g : Sums(g)
<1>5. Sums(h)
  <2> HIDE DEF Sums
  <2> QED BY <1>4
<1>6. MapThenSumSet(LAMBDA k : ledger[k].sum, S) = h[S]
  BY <1>1
<1> HIDE DEF h, Sums
<1> QED BY <1>3, <1>5, <1>6, TotalIs

\* The same for what the charges had beyond what was reserved for them.
Overrun(K) == {k \in K : reservation[k].status = "reconciled_overrun"}
LEMMA ExcessesAre ==
  ASSUME NEW K, IsFiniteSet(K), NEW w,
         \A k \in Overrun(K) : w[k] = Less(reservation[k].actual, reservation[k].amount)
  PROVE  Excess(K) = Total(w, Overrun(K))
<1> DEFINE S == Overrun(K)
           Sums(g) == g = [R \in SUBSET S |-> IF R = {} THEN 0
              ELSE Less(reservation[Pick(R)].actual, reservation[Pick(R)].amount) + g[R \ {Pick(R)}]]
<1>1. Excess(K) = (CHOOSE g : Sums(g))[S]
  BY DEF Excess, MapThenSumSet, MapThenFoldSet, Pick, Overrun
<1>0. IsFiniteSet(S)
  BY FS_Subset DEF Overrun
<1>2. \A R \in SUBSET S : R # {} =>
        w[Pick(R)] = Less(reservation[Pick(R)].actual, reservation[Pick(R)].amount)
  BY Picked
<1> HIDE DEF S
<1>3. ASSUME NEW g PROVE Sums(g) <=> Adds(g, w, S)
  BY <1>2 DEF Adds
<1>4. \E g : Sums(g)
  BY <1>3, <1>0, AdderExists
<1> DEFINE h == CHOOSE g : Sums(g)
<1>5. Sums(h)
  <2> HIDE DEF Sums
  <2> QED BY <1>4
<1>6. Excess(K) = h[S]
  BY <1>1
<1> HIDE DEF h, Sums
<1>7. Total(w, S) = h[S]
  BY <1>3, <1>5, <1>0, TotalIs
<1> QED BY <1>6, <1>7 DEF S

LEMMA Weights ==
  ASSUME LedgerRowsOK, NEW k \in Keys
  PROVE  /\ HoldOf[k] \in Nat /\ ChargeOf[k] \in Nat /\ ExcessOf[k] \in Nat
         /\ reservation[k] \in ReservationRows /\ ledger[k] \in [rows : Nat, sum : Nat]
<1>1. reservation[k] \in ReservationRows /\ ledger[k] \in [rows : Nat, sum : Nat]
  BY DEF LedgerRowsOK
<1> QED BY <1>1 DEF HoldOf, ChargeOf, ExcessOf, Less, ReservationRows

LEMMA Sums ==
  ASSUME LedgerRowsOK, NEW K \in SUBSET Keys
  PROVE  /\ IsFiniteSet(K) /\ Total(HoldOf, K) \in Nat
         /\ Total(ChargeOf, K) \in Nat /\ Total(ExcessOf, K) \in Nat
<1>1. IsFiniteSet(K)
  BY LedgerAssumption, FS_Subset
<1>2. \A k \in K : HoldOf[k] \in Nat /\ ChargeOf[k] \in Nat /\ ExcessOf[k] \in Nat
  BY Weights
<1> QED BY <1>1, <1>2, TotalNatural

\* The sums of the ledger over a part of its keys.
LEMMA HeldIs ==
  ASSUME LedgerRowsOK, NEW K \in SUBSET Keys
  PROVE  Amount(Held(K)) = Total(HoldOf, K)
<1>1. Held(K) \in SUBSET K /\ IsFiniteSet(K) /\ IsFiniteSet(Held(K))
  BY Sums, FS_Subset DEF Held
<1>2. \A k \in Held(K) : HoldOf[k] = reservation[k].amount
  BY DEF Held, HoldOf
<1>3. \A k \in K \ Held(K) : HoldOf[k] = 0
  BY DEF Held, HoldOf
<1>4. \A k \in K : HoldOf[k] \in Nat
  BY Weights
<1>5. Total(HoldOf, K) = Total(HoldOf, Held(K))
  BY <1>1, <1>3, <1>4, TotalFilter
<1> QED BY <1>1, <1>2, <1>5, AmountIs

LEMMA ExcessIs ==
  ASSUME LedgerRowsOK, NEW K \in SUBSET Keys
  PROVE  Excess(K) = Total(ExcessOf, K)
<1>1. Overrun(K) \in SUBSET K /\ IsFiniteSet(K)
  BY Sums DEF Overrun
<1>2. \A k \in Overrun(K) : ExcessOf[k] = Less(reservation[k].actual, reservation[k].amount)
  BY DEF Overrun, ExcessOf
<1>3. \A k \in K \ Overrun(K) : ExcessOf[k] = 0
  BY DEF Overrun, ExcessOf
<1>4. \A k \in K : ExcessOf[k] \in Nat
  BY Weights
<1>5. Total(ExcessOf, K) = Total(ExcessOf, Overrun(K))
  BY <1>1, <1>3, <1>4, TotalFilter
<1> QED BY <1>1, <1>2, <1>5, ExcessesAre

\* The columns and limits of the invariant are those of the properties.
LEMMA BooksBalance ==
  ASSUME Books PROVE CountersMatch /\ BudgetHeld
<1>1. LedgerRowsOK /\ Columns /\ RunLimits /\ MonthLimit
  BY DEF Books, Accounts
<1>2. ASSUME NEW r \in Runs
      PROVE  /\ Amount(Held(KeysOf(r))) = Total(HoldOf, KeysOf(r))
             /\ Excess(KeysOf(r)) = Total(ExcessOf, KeysOf(r))
             /\ MapThenSumSet(LAMBDA k : ledger[k].sum, KeysOf(r)) = Total(ChargeOf, KeysOf(r))
  <2>1. KeysOf(r) \in SUBSET Keys
    BY DEF KeysOf
  <2>2. IsFiniteSet(KeysOf(r)) /\ \A k \in KeysOf(r) : ChargeOf[k] = ledger[k].sum
    BY <1>1, <2>1, Sums DEF ChargeOf
  <2>3. MapThenSumSet(LAMBDA k : ledger[k].sum, KeysOf(r)) = Total(ChargeOf, KeysOf(r))
    BY <2>2, ChargesAre
  <2> QED BY <1>1, <2>1, <2>3, HeldIs, ExcessIs
<1>3. CountersMatch
  BY <1>1, <1>2 DEF Columns, CountersMatch
<1>4. Amount(Held(Keys)) = Total(HoldOf, Keys) /\ Excess(Keys) = Total(ExcessOf, Keys)
  BY <1>1, HeldIs, ExcessIs
<1>5. BudgetHeld
  BY <1>1, <1>2, <1>4 DEF BudgetHeld, RunLimits, MonthLimit
<1> QED BY <1>3, <1>5

-----------------------------------------------------------------------------
(* Releasing what has lapsed *)

SweptHold == [k \in Keys |-> IF k \in Lapsed THEN 0 ELSE HoldOf[k]]

\* What the sweep takes off the held amounts is what has lapsed of them.
LEMMA SweptSums ==
  ASSUME LedgerRowsOK, NEW K \in SUBSET Keys
  PROVE  /\ Total(HoldOf, K) = Amount(Lapsed \cap K) + Total(SweptHold, K)
         /\ Amount(Held(K) \ Lapsed) = Total(SweptHold, K)
         /\ Amount(Lapsed \cap K) \in Nat /\ Total(SweptHold, K) \in Nat
<1> DEFINE A == Lapsed \cap K
           B == K \ A
<1>1. IsFiniteSet(K) /\ IsFiniteSet(A) /\ IsFiniteSet(B) /\ IsFiniteSet(Held(K) \ Lapsed)
  <2>1. IsFiniteSet(K) /\ A \in SUBSET K /\ B \in SUBSET K /\ Held(K) \ Lapsed \in SUBSET K
    BY Sums DEF Held
  <2> QED BY <2>1, FS_Subset
<1>2. \A k \in K : HoldOf[k] \in Nat /\ SweptHold[k] \in Nat
  BY Weights DEF SweptHold
<1>3. Amount(A) = Total(HoldOf, A)
  <2>1. \A k \in A : HoldOf[k] = reservation[k].amount
    BY DEF Lapsed, Held, HoldOf
  <2> QED BY <1>1, <2>1, AmountIs
<1>4. Total(SweptHold, K) = Total(SweptHold, B)
  <2>1. \A k \in K \ B : SweptHold[k] = 0
    BY DEF SweptHold
  <2>2. B \in SUBSET K
    OBVIOUS
  <2> HIDE DEF B
  <2> QED BY <1>1, <1>2, <2>1, <2>2, TotalFilter
<1>5. Total(SweptHold, B) = Total(HoldOf, B)
  <2>1. \A k \in B : SweptHold[k] = HoldOf[k]
    BY DEF SweptHold
  <2> HIDE DEF B
  <2> QED BY <1>1, <2>1, TotalCongruence
<1>6. Amount(Held(K) \ Lapsed) = Total(SweptHold, K)
  <2>1. \A k \in Held(K) \ Lapsed : SweptHold[k] = reservation[k].amount
    BY DEF SweptHold, HoldOf, Held
  <2>2. \A k \in K \ (Held(K) \ Lapsed) : SweptHold[k] = 0
    BY DEF SweptHold, HoldOf, Held
  <2>3. Held(K) \ Lapsed \in SUBSET K
    BY DEF Held
  <2>4. Total(SweptHold, K) = Total(SweptHold, Held(K) \ Lapsed)
    BY <1>1, <1>2, <2>2, <2>3, TotalFilter
  <2> QED BY <1>1, <2>1, <2>4, AmountIs
<1>7. Total(HoldOf, K) = Total(HoldOf, A) + Total(HoldOf, B) /\ Total(HoldOf, A) \in Nat /\ Total(HoldOf, B) \in Nat
  <2>1. A \in SUBSET K /\ B = K \ A
    OBVIOUS
  <2> HIDE DEF A, B
  <2> QED BY <1>1, <1>2, <2>1, TotalSplit
<1> HIDE DEF B
<1> QED BY <1>3, <1>4, <1>5, <1>6, <1>7

-----------------------------------------------------------------------------
(* Steps *)

LEMMA KeySets == ASSUME NEW r PROVE KeysOf(r) \in SUBSET Keys
BY DEF KeysOf

LEMMA AccountRow ==
  ASSUME AccountsOK, NEW r \in Runs
  PROVE  /\ account[r] \in AccountRows
         /\ account[r].actual \in Nat /\ account[r].reserved \in Nat /\ account[r].approved \in Nat
BY DEF AccountsOK, AccountRows

\* A step that leaves every weight and every column alone: the approved
\* budget grows to cover them, or stays, and the month goes on or is new.
LEMMA KeepsBooks ==
  ASSUME Books, Accounts', AccountsOK',
         \A k \in Keys : /\ HoldOf'[k] = HoldOf[k] /\ ChargeOf'[k] = ChargeOf[k]
                         /\ ExcessOf'[k] = ExcessOf[k],
         \A r \in Runs :
            /\ account'[r].actual = account[r].actual /\ account'[r].reserved = account[r].reserved
            /\ \/ account'[r].approved = account[r].approved
               \/ account[r].actual + account[r].reserved <= account'[r].approved,
         month' \in {month, 0}
  PROVE  Books'
<1>1. LedgerRowsOK /\ AccountsOK /\ Columns /\ RunLimits /\ MonthLimit
  BY DEF Books, Accounts
<1>2. ASSUME NEW K \in SUBSET Keys
      PROVE  /\ Total(HoldOf', K) = Total(HoldOf, K) /\ Total(ChargeOf', K) = Total(ChargeOf, K)
             /\ Total(ExcessOf', K) = Total(ExcessOf, K)
  <2>1. IsFiniteSet(K)
    BY <1>1, Sums
  <2> QED BY <2>1, TotalCongruence
<1>3. Columns'
  BY <1>1, <1>2, KeySets DEF Columns
<1>4. RunLimits'
  <2> SUFFICES ASSUME NEW r \in Runs
               PROVE  account'[r].actual + account'[r].reserved
                        <= account'[r].approved + Total(ExcessOf', KeysOf(r))
    BY DEF RunLimits
  <2>1. Total(ExcessOf', KeysOf(r)) = Total(ExcessOf, KeysOf(r)) /\ Total(ExcessOf, KeysOf(r)) \in Nat
    BY <1>1, <1>2, KeySets, Sums
  <2>2. account[r].actual + account[r].reserved <= account[r].approved + Total(ExcessOf, KeysOf(r))
    BY <1>1 DEF RunLimits
  <2>3. account[r].actual \in Nat /\ account[r].reserved \in Nat /\ account[r].approved \in Nat
        /\ account'[r].approved \in Nat
    BY <1>1, AccountRow DEF AccountsOK, AccountRows
  <2> QED BY <2>1, <2>2, <2>3
<1>5. MonthLimit'
  <2>1. Total(HoldOf, Keys) \in Nat /\ Total(ExcessOf, Keys) \in Nat /\ month \in Nat
    BY <1>1, Sums DEF AccountsOK
  <2>2. Total(HoldOf', Keys) = Total(HoldOf, Keys) /\ Total(ExcessOf', Keys) = Total(ExcessOf, Keys)
    BY <1>2
  <2>3. month' + Total(HoldOf', Keys) <= Ceiling + Total(ExcessOf', Keys)
    BY <1>1, <2>1, <2>2, LedgerAssumption DEF MonthLimit
  <2> QED BY <2>3 DEF MonthLimit
<1> QED BY <1>3, <1>4, <1>5 DEF Books

\* The weights when the rows and the ledger stay as they are.
LEMMA SameWeights ==
  ASSUME UNCHANGED <<reservation, ledger>>
  PROVE  \A k \in Keys : /\ HoldOf'[k] = HoldOf[k] /\ ChargeOf'[k] = ChargeOf[k]
                         /\ ExcessOf'[k] = ExcessOf[k]
BY DEF HoldOf, ChargeOf, ExcessOf

\* Calls and answers, while the columns stay as they are.
LEMMA CallBooks ==
  ASSUME Books, Accounts', AccountsOK', UNCHANGED <<account, reservation, ledger, month>>
  PROVE  Books'
BY SameWeights, KeepsBooks

LEMMA ApproveBooks ==
  ASSUME Books, Accounts', NEW r \in Runs, Approve(r)
  PROVE  Books'
<1>1. PICK budget \in Approvals :
        /\ budget > account[r].actual + account[r].reserved
        /\ account' = [account EXCEPT ![r].status = "open", ![r].approved = budget]
  BY DEF Approve
<1>2. AccountsOK /\ account[r] \in AccountRows /\ budget \in Nat
  BY LedgerAssumption, AccountRow DEF Books
<1>3. /\ account' \in [Runs -> AccountRows] /\ account'[r].approved = budget
      /\ \A s \in Runs : /\ account'[s].actual = account[s].actual /\ account'[s].reserved = account[s].reserved
                         /\ s # r => account'[s].approved = account[s].approved
  BY <1>1, <1>2 DEF AccountsOK, AccountRows
<1>4. AccountsOK'
  BY <1>2, <1>3 DEF AccountsOK, Approve
<1>5. account[r].actual + account[r].reserved <= account'[r].approved
  BY <1>1, <1>2, <1>3, AccountRow
<1>6. UNCHANGED <<reservation, ledger, month>>
  BY DEF Approve
<1> QED BY <1>3, <1>4, <1>5, <1>6, SameWeights, KeepsBooks

LEMMA StatusBooks ==
  ASSUME Books, Accounts', NEW r \in Runs, ApprovalExpires(r) \/ CancelAccount(r)
  PROVE  Books'
<1>1. PICK status \in {"expired", "cancelled"} : account' = [account EXCEPT ![r].status = status]
  BY DEF ApprovalExpires, CancelAccount
<1>2. AccountsOK /\ account[r] \in AccountRows
  BY AccountRow DEF Books
<1>3. /\ account' \in [Runs -> AccountRows]
      /\ \A s \in Runs : /\ account'[s].actual = account[s].actual /\ account'[s].reserved = account[s].reserved
                         /\ account'[s].approved = account[s].approved
  BY <1>1, <1>2 DEF AccountsOK, AccountRows
<1>4. UNCHANGED <<reservation, ledger, month, lapses, breaks, months>>
  BY DEF ApprovalExpires, CancelAccount
<1>5. AccountsOK'
  BY <1>2, <1>3, <1>4 DEF AccountsOK
<1> QED BY <1>3, <1>4, <1>5, SameWeights, KeepsBooks

LEMMA LapseBooks ==
  ASSUME Books, Accounts', NEW k \in Keys, Lapse(k)
  PROVE  Books'
<1>1. LedgerRowsOK /\ AccountsOK
  BY DEF Books, Accounts
<1>2. reservation' = [reservation EXCEPT ![k].lapsed = TRUE] /\ UNCHANGED <<account, ledger, month, breaks, months>>
      /\ lapses' = lapses + 1
  BY DEF Lapse
<1>3. \A i \in Keys : /\ reservation'[i].status = reservation[i].status
                      /\ reservation'[i].amount = reservation[i].amount
                      /\ reservation'[i].actual = reservation[i].actual
  BY <1>1, <1>2 DEF LedgerRowsOK, ReservationRows
<1>4. \A i \in Keys : /\ HoldOf'[i] = HoldOf[i] /\ ChargeOf'[i] = ChargeOf[i]
                      /\ ExcessOf'[i] = ExcessOf[i]
  BY <1>2, <1>3 DEF HoldOf, ChargeOf, ExcessOf
<1>5. AccountsOK'
  BY <1>1, <1>2 DEF AccountsOK
<1> QED BY <1>2, <1>4, <1>5, KeepsBooks

LEMMA MonthBooks ==
  ASSUME Books, Accounts', NewMonth
  PROVE  Books'
<1>1. AccountsOK /\ UNCHANGED <<account, reservation, ledger, lapses, breaks>> /\ month' = 0 /\ months' = months + 1
  BY DEF Books, NewMonth
<1>2. AccountsOK'
  BY <1>1 DEF AccountsOK
<1> QED BY <1>1, <1>2, SameWeights, KeepsBooks

\* The columns of a run once the lapsed reservations are released are what its
\* other reservations hold.
LEMMA SweptColumns ==
  ASSUME Books
  PROVE  /\ HeldThisMonth = Total(SweptHold, Keys) /\ HeldThisMonth \in Nat
         /\ HeldThisMonth <= Total(HoldOf, Keys)
         /\ \A r \in Runs :
              /\ HeldByRun(r) = Total(SweptHold, KeysOf(r)) /\ HeldByRun(r) \in Nat
              /\ HeldByRun(r) <= account[r].reserved
              /\ SweptAccount(r) = [status |-> account[r].status, actual |-> account[r].actual,
                                    reserved |-> HeldByRun(r), approved |-> account[r].approved]
              /\ SweptAccount(r) \in AccountRows
<1>1. LedgerRowsOK /\ AccountsOK /\ Columns
  BY DEF Books, Accounts
<1>2. /\ HeldThisMonth = Total(SweptHold, Keys) /\ HeldThisMonth \in Nat
      /\ HeldThisMonth <= Total(HoldOf, Keys)
  <2>1. HeldThisMonth = Amount(Held(Keys) \ Lapsed)
    BY DEF HeldThisMonth
  <2>2. /\ Total(HoldOf, Keys) = Amount(Lapsed \cap Keys) + Total(SweptHold, Keys)
        /\ Amount(Held(Keys) \ Lapsed) = Total(SweptHold, Keys)
        /\ Amount(Lapsed \cap Keys) \in Nat /\ Total(SweptHold, Keys) \in Nat
    BY <1>1, SweptSums
  <2> QED BY <2>1, <2>2
<1>3. ASSUME NEW r \in Runs
      PROVE  /\ HeldByRun(r) = Total(SweptHold, KeysOf(r)) /\ HeldByRun(r) \in Nat
             /\ HeldByRun(r) <= account[r].reserved
  <2>1. account[r].reserved = Total(HoldOf, KeysOf(r))
    BY <1>1 DEF Columns
  <2>2. /\ Total(HoldOf, KeysOf(r)) = Amount(Lapsed \cap KeysOf(r)) + Total(SweptHold, KeysOf(r))
        /\ Amount(Lapsed \cap KeysOf(r)) \in Nat /\ Total(SweptHold, KeysOf(r)) \in Nat
    BY <1>1, KeySets, SweptSums
  <2> QED BY <2>1, <2>2 DEF HeldByRun, Less
<1>4. ASSUME NEW r \in Runs
      PROVE  SweptAccount(r) = [status |-> account[r].status, actual |-> account[r].actual,
                                reserved |-> HeldByRun(r), approved |-> account[r].approved]
  BY <1>1, AccountRow DEF SweptAccount, AccountRows
<1>5. ASSUME NEW r \in Runs PROVE SweptAccount(r) \in AccountRows
  BY <1>1, <1>3, <1>4, AccountRow DEF AccountRows
<1> QED BY <1>2, <1>3, <1>4, <1>5

LEMMA SweptWeight ==
  ASSUME LedgerRowsOK, NEW i \in Keys, reservation'[i] = Swept(i)
  PROVE  HoldOf'[i] = SweptHold[i] /\ ExcessOf'[i] = ExcessOf[i]
<1>1. reservation[i] \in ReservationRows
  BY DEF LedgerRowsOK
<1>2. CASE i \in Lapsed
  <2>1. reservation[i].status = "reserved" /\ reservation'[i].status = "released"
    BY <1>1, <1>2 DEF Lapsed, Held, Swept, ReservationRows
  <2> QED BY <1>2, <2>1 DEF HoldOf, SweptHold, ExcessOf
<1>3. CASE i \notin Lapsed
  <2>1. reservation'[i] = reservation[i]
    BY <1>3 DEF Swept
  <2> QED BY <1>3, <2>1 DEF HoldOf, SweptHold, ExcessOf
<1> QED BY <1>2, <1>3

LEMMA ReuseBooks ==
  ASSUME Books, Accounts', NEW e \in Callers, NEW k \in Keys, Reuse(e, k)
  PROVE  Books'
<1>1. LedgerRowsOK /\ AccountsOK /\ Columns /\ RunLimits /\ MonthLimit
  BY DEF Books, Accounts
<1>2. /\ reservation' = [i \in Keys |-> Swept(i)] /\ account' = [r \in Runs |-> SweptAccount(r)]
      /\ UNCHANGED <<ledger, month, lapses, breaks, months>>
  BY DEF Reuse
<1>3. AccountsOK'
  BY <1>1, <1>2, SweptColumns DEF AccountsOK
<1>4. \A i \in Keys : /\ HoldOf'[i] = SweptHold[i] /\ ChargeOf'[i] = ChargeOf[i]
                      /\ ExcessOf'[i] = ExcessOf[i]
  BY <1>1, <1>2, SweptWeight DEF ChargeOf
<1>5. ASSUME NEW K \in SUBSET Keys
      PROVE  /\ Total(HoldOf', K) = Total(SweptHold, K) /\ Total(ChargeOf', K) = Total(ChargeOf, K)
             /\ Total(ExcessOf', K) = Total(ExcessOf, K)
  <2>1. IsFiniteSet(K)
    BY <1>1, Sums
  <2> QED BY <1>4, <2>1, TotalCongruence
<1>6. ASSUME NEW r \in Runs
      PROVE  /\ account'[r].reserved = Total(SweptHold, KeysOf(r)) /\ account'[r].reserved \in Nat
             /\ account'[r].actual = account[r].actual /\ account'[r].reserved <= account[r].reserved
             /\ account'[r].approved = account[r].approved
  BY <1>2, SweptColumns
<1>7. Columns'
  BY <1>1, <1>5, <1>6, KeySets DEF Columns
<1>8. RunLimits'
  <2> SUFFICES ASSUME NEW r \in Runs
               PROVE  account'[r].actual + account'[r].reserved
                        <= account'[r].approved + Total(ExcessOf', KeysOf(r))
    BY DEF RunLimits
  <2>1. Total(ExcessOf', KeysOf(r)) = Total(ExcessOf, KeysOf(r)) /\ Total(ExcessOf, KeysOf(r)) \in Nat
    BY <1>1, <1>5, KeySets, Sums
  <2>2. account[r].actual + account[r].reserved <= account[r].approved + Total(ExcessOf, KeysOf(r))
    BY <1>1 DEF RunLimits
  <2>3. account[r].actual \in Nat /\ account[r].reserved \in Nat /\ account[r].approved \in Nat
    BY <1>1, AccountRow
  <2> QED BY <1>6, <2>1, <2>2, <2>3
<1>9. MonthLimit'
  <2>1. /\ Total(SweptHold, Keys) <= Total(HoldOf, Keys) /\ Total(SweptHold, Keys) \in Nat
        /\ Total(HoldOf, Keys) \in Nat /\ Total(ExcessOf, Keys) \in Nat /\ month \in Nat
    BY <1>1, SweptColumns, Sums DEF AccountsOK
  <2>2. Total(HoldOf', Keys) = Total(SweptHold, Keys) /\ Total(ExcessOf', Keys) = Total(ExcessOf, Keys)
    BY <1>5
  <2>3. month' + Total(HoldOf', Keys) <= Ceiling + Total(ExcessOf', Keys)
    BY <1>1, <1>2, <2>1, <2>2, LedgerAssumption DEF MonthLimit
  <2> QED BY <2>3 DEF MonthLimit
<1> QED BY <1>3, <1>7, <1>8, <1>9 DEF Books

\* What is reserved was not held before: a reservation that still holds is
\* used again.
LEMMA ReserveBooks ==
  ASSUME Books, Accounts', NEW e \in Callers, NEW k \in Keys, Reserve(e, k)
  PROVE  Books'
<1> DEFINE fresh == [status |-> "reserved", amount |-> CallLimit, actual |-> 0, lapsed |-> FALSE]
           own == KeyRun[k]
<1>1. LedgerRowsOK /\ AccountsOK /\ Columns /\ RunLimits /\ MonthLimit
  BY DEF Books, Accounts
<1>2. /\ reservation' = [i \in Keys |-> IF i = k THEN fresh ELSE Swept(i)]
      /\ account' = [r \in Runs |-> IF r = own THEN [SweptAccount(r) EXCEPT !.reserved = @ + CallLimit]
                                    ELSE SweptAccount(r)]
      /\ UNCHANGED <<ledger, month, lapses, breaks, months>>
      /\ MonthHasRoom /\ HasRoom(own) /\ ~Reusable(k)
  BY DEF Reserve
<1>3. own \in Runs /\ CallLimit \in Nat /\ Ceiling \in Nat
  BY LedgerAssumption
<1>4. ASSUME NEW r \in Runs
      PROVE  /\ account'[r] \in AccountRows
             /\ account'[r].reserved = Total(SweptHold, KeysOf(r)) + (IF r = own THEN CallLimit ELSE 0)
             /\ account'[r].actual = account[r].actual /\ account'[r].approved = account[r].approved
  <2>1. /\ HeldByRun(r) = Total(SweptHold, KeysOf(r)) /\ HeldByRun(r) \in Nat
        /\ SweptAccount(r) = [status |-> account[r].status, actual |-> account[r].actual,
                              reserved |-> HeldByRun(r), approved |-> account[r].approved]
        /\ SweptAccount(r) \in AccountRows
    BY SweptColumns
  <2>2. CASE r = own
    <3>1. account'[r] = [SweptAccount(r) EXCEPT !.reserved = @ + CallLimit]
      BY <1>2, <2>2
    <3> HIDE DEF own
    <3> QED BY <1>3, <2>1, <2>2, <3>1 DEF AccountRows
  <2>3. CASE r # own
    <3>1. account'[r] = SweptAccount(r)
      BY <1>2, <2>3
    <3> HIDE DEF own
    <3> QED BY <2>1, <2>3, <3>1
  <2> QED BY <2>2, <2>3
<1>5. AccountsOK'
  <2>1. account' \in [Runs -> AccountRows]
    BY <1>2, <1>4
  <2> QED BY <1>1, <1>2, <2>1 DEF AccountsOK
<1>6. SweptHold[k] = 0 /\ ExcessOf[k] = 0
  BY <1>2 DEF Reusable, SweptHold, HoldOf, ExcessOf, Lapsed, Held
<1>7. \A i \in Keys : /\ HoldOf'[i] = IF i = k THEN CallLimit ELSE SweptHold[i]
                      /\ ChargeOf'[i] = ChargeOf[i] /\ ExcessOf'[i] = ExcessOf[i]
  <2>1. HoldOf'[k] = CallLimit /\ ExcessOf'[k] = 0
    BY <1>2 DEF HoldOf, ExcessOf
  <2>2. \A i \in Keys \ {k} : HoldOf'[i] = SweptHold[i] /\ ExcessOf'[i] = ExcessOf[i]
    BY <1>1, <1>2, SweptWeight
  <2>3. \A i \in Keys : ChargeOf'[i] = ChargeOf[i]
    BY <1>2 DEF ChargeOf
  <2> QED BY <1>6, <2>1, <2>2, <2>3
<1> HIDE DEF fresh
<1>8. ASSUME NEW K \in SUBSET Keys
      PROVE  /\ Total(HoldOf', K) = Total(SweptHold, K) + (IF k \in K THEN CallLimit ELSE 0)
             /\ Total(ChargeOf', K) = Total(ChargeOf, K) /\ Total(ExcessOf', K) = Total(ExcessOf, K)
             /\ Total(SweptHold, K) \in Nat /\ Total(ExcessOf, K) \in Nat
  <2>1. IsFiniteSet(K) /\ Total(SweptHold, K) \in Nat /\ Total(ExcessOf, K) \in Nat
    BY <1>1, Sums, SweptSums
  <2>2. Total(ChargeOf', K) = Total(ChargeOf, K) /\ Total(ExcessOf', K) = Total(ExcessOf, K)
    BY <1>7, <2>1, TotalCongruence
  <2> DEFINE v == HoldOf'
             w == SweptHold
  <2>3. /\ \A i \in K : w[i] \in Nat /\ v[i] \in Nat
        /\ \A i \in K : i # k => v[i] = w[i]
        /\ w[k] = 0 /\ v[k] = CallLimit
    BY <1>1, <1>3, <1>6, <1>7, Weights DEF SweptHold
  <2> HIDE DEF v, w
  <2>4. /\ k \notin K => Total(v, K) = Total(w, K)
        /\ k \in K => Total(v, K) = (Total(w, K) - w[k]) + v[k]
    BY <2>1, <2>3, TotalUpdate
  <2>5. Total(w, K) \in Nat
    BY <2>1 DEF w
  <2>6. Total(v, K) = Total(w, K) + (IF k \in K THEN CallLimit ELSE 0)
    BY <1>3, <2>3, <2>4, <2>5
  <2> QED BY <2>1, <2>2, <2>6 DEF v, w
<1>9. \A r \in Runs : k \in KeysOf(r) <=> r = own
  BY DEF KeysOf
<1>10. Columns'
  <2>1. ASSUME NEW r \in Runs
        PROVE  /\ account'[r].reserved = Total(HoldOf', KeysOf(r))
               /\ account'[r].actual = Total(ChargeOf', KeysOf(r))
    <3>1. account[r].actual = Total(ChargeOf, KeysOf(r))
      BY <1>1 DEF Columns
    <3> HIDE DEF own
    <3> QED BY <1>4, <1>8, <1>9, <3>1, KeySets
  <2> QED BY <2>1 DEF Columns
<1>11. RunLimits'
  <2> SUFFICES ASSUME NEW r \in Runs
               PROVE  account'[r].actual + account'[r].reserved
                        <= account'[r].approved + Total(ExcessOf', KeysOf(r))
    BY DEF RunLimits
  <2>1. Total(ExcessOf', KeysOf(r)) = Total(ExcessOf, KeysOf(r)) /\ Total(ExcessOf, KeysOf(r)) \in Nat
    BY <1>8, KeySets
  <2>2. account[r].actual \in Nat /\ account[r].reserved \in Nat /\ account[r].approved \in Nat
    BY <1>1, AccountRow
  <2>3. HeldByRun(r) = Total(SweptHold, KeysOf(r)) /\ HeldByRun(r) \in Nat
        /\ HeldByRun(r) <= account[r].reserved
    BY SweptColumns
  <2>4. CASE r = own
    <3>1. account[r].actual + HeldByRun(r) + CallLimit <= account[r].approved
      BY <1>2, <2>4 DEF HasRoom
    <3> HIDE DEF own
    <3> QED BY <1>3, <1>4, <2>1, <2>2, <2>3, <2>4, <3>1
  <2>5. CASE r # own
    <3>1. account[r].actual + account[r].reserved <= account[r].approved + Total(ExcessOf, KeysOf(r))
      BY <1>1 DEF RunLimits
    <3> HIDE DEF own
    <3> QED BY <1>4, <2>1, <2>2, <2>3, <2>5, <3>1
  <2> QED BY <2>4, <2>5
<1>12. MonthLimit'
  <2>1. /\ Total(HoldOf', Keys) = Total(SweptHold, Keys) + CallLimit
        /\ Total(ExcessOf', Keys) = Total(ExcessOf, Keys)
        /\ Total(SweptHold, Keys) \in Nat /\ Total(ExcessOf, Keys) \in Nat
    BY <1>8
  <2>2. month + Total(SweptHold, Keys) + CallLimit <= Ceiling /\ month \in Nat
    BY <1>1, <1>2, SweptColumns DEF MonthHasRoom, AccountsOK
  <2>3. month' + Total(HoldOf', Keys) <= Ceiling + Total(ExcessOf', Keys)
    BY <1>2, <1>3, <2>1, <2>2
  <2> QED BY <2>3 DEF MonthLimit
<1> QED BY <1>5, <1>10, <1>11, <1>12 DEF Books

\* A reservation that ends is taken off what is held.
LEMMA HoldEnds ==
  ASSUME LedgerRowsOK, NEW k \in Keys, \A i \in Keys : HoldOf'[i] = IF i = k THEN 0 ELSE HoldOf[i],
         NEW K \in SUBSET Keys
  PROVE  /\ k \notin K => Total(HoldOf', K) = Total(HoldOf, K)
         /\ k \in K => Total(HoldOf', K) = Total(HoldOf, K) - HoldOf[k] /\ HoldOf[k] <= Total(HoldOf, K)
<1>1. IsFiniteSet(K) /\ Total(HoldOf, K) \in Nat
  BY Sums
<1> DEFINE v == HoldOf'
           w == HoldOf
<1>2. /\ \A i \in K : w[i] \in Nat /\ v[i] \in Nat
      /\ \A i \in K : i # k => v[i] = w[i]
      /\ w[k] \in Nat /\ v[k] = 0
  BY Weights
<1> HIDE DEF v, w
<1>3. /\ k \notin K => Total(v, K) = Total(w, K)
      /\ k \in K => Total(v, K) = (Total(w, K) - w[k]) + v[k] /\ w[k] <= Total(w, K)
  <2>1. CASE k \notin K
    BY <1>1, <1>2, <2>1, TotalUpdate
  <2>2. CASE k \in K
    <3>1. Total(v, K) = (Total(w, K) - w[k]) + v[k]
      BY <1>1, <1>2, <2>2, TotalUpdate
    <3>2. w[k] <= Total(w, K)
      BY <1>1, <1>2, <2>2, TotalUpdate
    <3> QED BY <2>2, <3>1, <3>2
  <2> QED BY <2>1, <2>2
<1>4. Total(w, K) \in Nat
  BY <1>1 DEF w
<1>5. /\ k \notin K => Total(v, K) = Total(w, K)
      /\ k \in K => Total(v, K) = Total(w, K) - w[k] /\ w[k] <= Total(w, K)
  BY <1>2, <1>3, <1>4
<1> QED BY <1>5 DEF v, w

\* A released reservation was held, so that its run's column covers it.
LEMMA ReleaseBooks ==
  ASSUME Books, Accounts', NEW e \in Callers, Release(e)
  PROVE  Books'
<1> DEFINE k == paid[e].key
           own == KeyRun[k]
<1>1. LedgerRowsOK /\ AccountsOK /\ Columns /\ RunLimits /\ MonthLimit
  BY DEF Books, Accounts
<1>2. paid[e].pc = "failed" /\ UNCHANGED <<ledger, month, lapses, breaks, months>>
  BY DEF Release
<1>3. k \in Keys /\ reservation[k] \in ReservationRows
  BY <1>1, <1>2, PaidRow DEF LedgerRowsOK
<1>4. CASE ~Releasable(k)
  <2>1. UNCHANGED <<reservation, account>>
    BY <1>4 DEF Release
  <2>2. AccountsOK'
    BY <1>1, <1>2, <2>1 DEF AccountsOK
  <2> QED BY <1>2, <2>1, <2>2, CallBooks
<1>5. CASE Releasable(k)
  <2>1. /\ reservation' = [reservation EXCEPT ![k].status = "released"]
        /\ account' = [account EXCEPT ![own].reserved = Less(@, reservation[k].amount)]
        /\ reservation[k].status = "reserved" /\ own \in Runs
    BY <1>3, <1>5, LedgerAssumption DEF Release, Releasable
  <2> DEFINE amount == reservation[k].amount
  <2>2. amount \in Nat /\ HoldOf[k] = amount
    BY <1>3, <2>1 DEF HoldOf, ReservationRows
  <2>3. \A i \in Keys : /\ HoldOf'[i] = IF i = k THEN 0 ELSE HoldOf[i]
                        /\ ChargeOf'[i] = ChargeOf[i] /\ ExcessOf'[i] = ExcessOf[i]
    <3>1. reservation'[k].status = "released" /\ \A i \in Keys \ {k} : reservation'[i] = reservation[i]
      BY <1>1, <1>3, <2>1 DEF LedgerRowsOK, ReservationRows
    <3> HIDE DEF k
    <3> QED BY <1>2, <1>3, <2>1, <3>1 DEF HoldOf, ChargeOf, ExcessOf
  <2> HIDE DEF k, own, amount
  <2>4. ASSUME NEW K \in SUBSET Keys
        PROVE  /\ Total(HoldOf', K) = Total(HoldOf, K) - (IF k \in K THEN amount ELSE 0)
               /\ k \in K => amount <= Total(HoldOf, K)
               /\ Total(ChargeOf', K) = Total(ChargeOf, K) /\ Total(ExcessOf', K) = Total(ExcessOf, K)
               /\ Total(HoldOf, K) \in Nat /\ Total(ExcessOf, K) \in Nat
    <3>1. IsFiniteSet(K) /\ Total(HoldOf, K) \in Nat /\ Total(ExcessOf, K) \in Nat
      BY <1>1, Sums
    <3>2. Total(ChargeOf', K) = Total(ChargeOf, K) /\ Total(ExcessOf', K) = Total(ExcessOf, K)
      BY <2>3, <3>1, TotalCongruence
    <3>3. /\ k \notin K => Total(HoldOf', K) = Total(HoldOf, K)
          /\ k \in K => Total(HoldOf', K) = Total(HoldOf, K) - amount /\ amount <= Total(HoldOf, K)
      BY <1>1, <1>3, <2>2, <2>3, HoldEnds
    <3> QED BY <3>1, <3>2, <3>3
  <2>5. \A r \in Runs : k \in KeysOf(r) <=> r = own
    BY <1>3 DEF KeysOf, own
  <2>6. ASSUME NEW r \in Runs
        PROVE  /\ account'[r] \in AccountRows /\ account'[r].reserved = Total(HoldOf', KeysOf(r))
               /\ account'[r].reserved \in Nat /\ account'[r].reserved <= account[r].reserved
               /\ account'[r].actual = account[r].actual /\ account'[r].approved = account[r].approved
    <3>1. account[r] \in AccountRows /\ account[r].reserved = Total(HoldOf, KeysOf(r)) /\ account[r].reserved \in Nat
      BY <1>1, AccountRow DEF Columns
    <3>2. /\ Total(HoldOf', KeysOf(r)) = Total(HoldOf, KeysOf(r)) - (IF r = own THEN amount ELSE 0)
          /\ r = own => amount <= Total(HoldOf, KeysOf(r))
      BY <2>4, <2>5, KeySets
    <3>3. CASE r = own
      <4>1. account'[r] = [account[r] EXCEPT !.reserved = Less(@, amount)]
        BY <1>1, <2>1, <3>3 DEF AccountsOK, amount
      <4>2. Less(account[r].reserved, amount) = account[r].reserved - amount
        BY <2>2, <3>1, <3>2, <3>3 DEF Less
      <4> QED BY <2>2, <3>1, <3>2, <3>3, <4>1, <4>2 DEF AccountRows
    <3>4. CASE r # own
      <4>1. account'[r] = account[r]
        BY <1>1, <2>1, <3>4 DEF AccountsOK
      <4> QED BY <3>1, <3>2, <3>4, <4>1
    <3> QED BY <3>3, <3>4
  <2>7. AccountsOK'
    <3>1. account' = [r \in Runs |-> account'[r]]
      BY <1>1, <2>1 DEF AccountsOK
    <3>2. account' \in [Runs -> AccountRows]
      BY <2>6, <3>1
    <3> QED BY <1>1, <1>2, <3>2 DEF AccountsOK
  <2>8. Columns'
    BY <1>1, <2>4, <2>6, KeySets DEF Columns
  <2>9. RunLimits'
    <3> SUFFICES ASSUME NEW r \in Runs
                 PROVE  account'[r].actual + account'[r].reserved
                          <= account'[r].approved + Total(ExcessOf', KeysOf(r))
      BY DEF RunLimits
    <3>1. Total(ExcessOf', KeysOf(r)) = Total(ExcessOf, KeysOf(r)) /\ Total(ExcessOf, KeysOf(r)) \in Nat
      BY <2>4, KeySets
    <3>2. account[r].actual + account[r].reserved <= account[r].approved + Total(ExcessOf, KeysOf(r))
      BY <1>1 DEF RunLimits
    <3>3. account[r].actual \in Nat /\ account[r].reserved \in Nat /\ account[r].approved \in Nat
      BY <1>1, AccountRow
    <3> QED BY <2>6, <3>1, <3>2, <3>3
  <2>10. MonthLimit'
    <3>1. /\ Total(HoldOf', Keys) = Total(HoldOf, Keys) - amount /\ amount <= Total(HoldOf, Keys)
          /\ Total(ExcessOf', Keys) = Total(ExcessOf, Keys)
          /\ Total(HoldOf, Keys) \in Nat /\ Total(ExcessOf, Keys) \in Nat
      BY <1>3, <2>4
    <3>2. month' + Total(HoldOf', Keys) <= Ceiling + Total(ExcessOf', Keys)
      BY <1>1, <1>2, <2>2, <3>1, LedgerAssumption DEF MonthLimit, AccountsOK
    <3> QED BY <3>2 DEF MonthLimit
  <2> QED BY <2>7, <2>8, <2>9, <2>10 DEF Books
<1> QED BY <1>4, <1>5

\* A charge, or what goes beyond what was reserved for it, is added to the sum.
LEMMA ChargeGrows ==
  ASSUME LedgerRowsOK, NEW k \in Keys, NEW d \in Nat,
         \A i \in Keys : ChargeOf'[i] = IF i = k THEN ChargeOf[i] + d ELSE ChargeOf[i],
         NEW K \in SUBSET Keys
  PROVE  Total(ChargeOf', K) = Total(ChargeOf, K) + (IF k \in K THEN d ELSE 0)
<1>1. IsFiniteSet(K) /\ Total(ChargeOf, K) \in Nat
  BY Sums
<1> DEFINE v == ChargeOf'
           w == ChargeOf
<1>2. /\ \A i \in K : w[i] \in Nat /\ v[i] \in Nat
      /\ \A i \in K : i # k => v[i] = w[i]
      /\ w[k] \in Nat /\ v[k] = w[k] + d
  BY Weights
<1> HIDE DEF v, w
<1>3. /\ k \notin K => Total(v, K) = Total(w, K)
      /\ k \in K => Total(v, K) = (Total(w, K) - w[k]) + v[k]
  BY <1>1, <1>2, TotalUpdate
<1>4. Total(w, K) \in Nat
  BY <1>1 DEF w
<1>5. Total(v, K) = Total(w, K) + (IF k \in K THEN d ELSE 0)
  BY <1>2, <1>3, <1>4
<1> QED BY <1>5 DEF v, w

LEMMA ExcessGrows ==
  ASSUME LedgerRowsOK, NEW k \in Keys, NEW d \in Nat,
         \A i \in Keys : ExcessOf'[i] = IF i = k THEN ExcessOf[i] + d ELSE ExcessOf[i],
         NEW K \in SUBSET Keys
  PROVE  Total(ExcessOf', K) = Total(ExcessOf, K) + (IF k \in K THEN d ELSE 0)
<1>1. IsFiniteSet(K) /\ Total(ExcessOf, K) \in Nat
  BY Sums
<1> DEFINE v == ExcessOf'
           w == ExcessOf
<1>2. /\ \A i \in K : w[i] \in Nat /\ v[i] \in Nat
      /\ \A i \in K : i # k => v[i] = w[i]
      /\ w[k] \in Nat /\ v[k] = w[k] + d
  BY Weights
<1> HIDE DEF v, w
<1>3. /\ k \notin K => Total(v, K) = Total(w, K)
      /\ k \in K => Total(v, K) = (Total(w, K) - w[k]) + v[k]
  BY <1>1, <1>2, TotalUpdate
<1>4. Total(w, K) \in Nat
  BY <1>1 DEF w
<1>5. Total(v, K) = Total(w, K) + (IF k \in K THEN d ELSE 0)
  BY <1>2, <1>3, <1>4
<1> QED BY <1>5 DEF v, w

\* What a reconciliation does to the three weights of its reservation.
LEMMA ReconciledWeights ==
  ASSUME LedgerRowsOK, NEW e \in Callers, Reconcile(e), NEW k \in Keys, k = paid[e].key,
         NEW price \in Nat, price = paid[e].cost
  PROVE  /\ HoldOf[k] = reservation[k].amount /\ reservation[k].amount \in Nat
         /\ \A i \in Keys :
              /\ HoldOf'[i] = IF i = k THEN 0 ELSE HoldOf[i]
              /\ ChargeOf'[i] = IF i = k THEN ChargeOf[i] + price ELSE ChargeOf[i]
              /\ ExcessOf'[i] = IF i = k THEN ExcessOf[i] + (IF Overruns(k, price)
                                                THEN Less(price, reservation[k].amount) ELSE 0)
                                ELSE ExcessOf[i]
<1> DEFINE over == Overruns(k, price)
           row == [status |-> IF over THEN "reconciled_overrun" ELSE "reconciled",
                   amount |-> reservation[k].amount, actual |-> price, lapsed |-> FALSE]
           charge == [rows |-> ledger[k].rows + 1, sum |-> ledger[k].sum + price]
<1>1. /\ reservation[k].status = "reserved"
      /\ reservation' = [reservation EXCEPT ![k] = row] /\ ledger' = [ledger EXCEPT ![k] = charge]
  BY DEF Reconcile
<1>2. reservation[k] \in ReservationRows /\ ledger[k] \in [rows : Nat, sum : Nat]
  BY DEF LedgerRowsOK
<1>3. /\ row.status = (IF over THEN "reconciled_overrun" ELSE "reconciled")
      /\ row.amount = reservation[k].amount /\ row.actual = price /\ charge.sum = ledger[k].sum + price
  OBVIOUS
<1> HIDE DEF row, charge, over
<1>4. /\ reservation'[k] = row /\ ledger'[k] = charge
      /\ \A i \in Keys \ {k} : reservation'[i] = reservation[i] /\ ledger'[i] = ledger[i]
  BY <1>1 DEF LedgerRowsOK
<1>5. HoldOf[k] = reservation[k].amount /\ reservation[k].amount \in Nat /\ ExcessOf[k] = 0
  BY <1>1, <1>2 DEF HoldOf, ExcessOf, ReservationRows
<1>6. /\ HoldOf'[k] = 0 /\ ChargeOf'[k] = ChargeOf[k] + price
      /\ ExcessOf'[k] = IF over THEN Less(price, reservation[k].amount) ELSE 0
  BY <1>3, <1>4 DEF HoldOf, ChargeOf, ExcessOf
<1>7. Less(price, reservation[k].amount) \in Nat
  BY <1>5 DEF Less
<1>8. ExcessOf'[k] = ExcessOf[k] + (IF over THEN Less(price, reservation[k].amount) ELSE 0)
  BY <1>5, <1>6, <1>7
<1>9. \A i \in Keys \ {k} : HoldOf'[i] = HoldOf[i] /\ ChargeOf'[i] = ChargeOf[i] /\ ExcessOf'[i] = ExcessOf[i]
  BY <1>4 DEF HoldOf, ChargeOf, ExcessOf
<1> QED BY <1>5, <1>6, <1>8, <1>9 DEF over

\* A reconciliation moves what its reservation held to what was charged.  If
\* that does not fit, what it goes beyond is recorded as an overrun.
LEMMA ReconcileBooks ==
  ASSUME Books, Accounts', NEW e \in Callers, Reconcile(e)
  PROVE  Books'
<1>1. LedgerRowsOK /\ AccountsOK /\ Columns /\ RunLimits /\ MonthLimit
  BY DEF Books, Accounts
<1>2. PICK k \in Keys, price \in Nat : k = paid[e].key /\ price = paid[e].cost
  BY <1>1, PaidRow DEF Reconcile, CallRows
<1> DEFINE own == KeyRun[k]
           amount == reservation[k].amount
           over == Overruns(k, price)
           excess == IF over THEN Less(price, amount) ELSE 0
<1>3. /\ account' = [account EXCEPT ![own] = Charged(own, k, price)] /\ month' = month + price
      /\ UNCHANGED <<lapses, breaks, months>>
  BY <1>2 DEF Reconcile
<1>4. own \in Runs /\ Ceiling \in Nat
  BY LedgerAssumption
<1>5. /\ HoldOf[k] = amount /\ amount \in Nat
      /\ \A i \in Keys :
           /\ HoldOf'[i] = IF i = k THEN 0 ELSE HoldOf[i]
           /\ ChargeOf'[i] = IF i = k THEN ChargeOf[i] + price ELSE ChargeOf[i]
           /\ ExcessOf'[i] = IF i = k THEN ExcessOf[i] + excess ELSE ExcessOf[i]
  BY <1>1, <1>2, ReconciledWeights
<1>6. excess \in Nat /\ (over => excess >= price - amount)
  BY <1>5 DEF Less
<1>7. /\ account[own].actual + Less(account[own].reserved, amount) + price <= account[own].approved
      /\ month + Less(Amount(Held(Keys)), amount) + price <= Ceiling
      \/ over
  <2>1. /\ account[own].actual \in Nat /\ account[own].reserved \in Nat /\ account[own].approved \in Nat
        /\ month \in Nat /\ Amount(Held(Keys)) \in Nat
    BY <1>1, <1>4, AccountRow, HeldIs, Sums DEF AccountsOK
  <2> QED BY <1>4, <1>5, <2>1 DEF Overruns, RunAfter, MonthAfter, Less
<1> HIDE DEF own, amount, over, excess
<1>8. ASSUME NEW K \in SUBSET Keys
      PROVE  /\ Total(HoldOf', K) = Total(HoldOf, K) - (IF k \in K THEN amount ELSE 0)
             /\ k \in K => amount <= Total(HoldOf, K)
             /\ Total(ChargeOf', K) = Total(ChargeOf, K) + (IF k \in K THEN price ELSE 0)
             /\ Total(ExcessOf', K) = Total(ExcessOf, K) + (IF k \in K THEN excess ELSE 0)
             /\ Total(HoldOf, K) \in Nat /\ Total(ChargeOf, K) \in Nat /\ Total(ExcessOf, K) \in Nat
  <2>1. Total(HoldOf, K) \in Nat /\ Total(ChargeOf, K) \in Nat /\ Total(ExcessOf, K) \in Nat
    BY <1>1, Sums
  <2>2. /\ k \notin K => Total(HoldOf', K) = Total(HoldOf, K)
        /\ k \in K => Total(HoldOf', K) = Total(HoldOf, K) - amount /\ amount <= Total(HoldOf, K)
    BY <1>1, <1>5, HoldEnds
  <2>3. Total(ChargeOf', K) = Total(ChargeOf, K) + (IF k \in K THEN price ELSE 0)
    BY <1>1, <1>5, ChargeGrows
  <2>4. Total(ExcessOf', K) = Total(ExcessOf, K) + (IF k \in K THEN excess ELSE 0)
    BY <1>1, <1>5, <1>6, ExcessGrows
  <2> QED BY <2>1, <2>2, <2>3, <2>4
<1>9. \A r \in Runs : k \in KeysOf(r) <=> r = own
  BY DEF KeysOf, own
<1>10. /\ account[own].actual \in Nat /\ account[own].reserved \in Nat /\ account[own].approved \in Nat
       /\ account[own].reserved = Total(HoldOf, KeysOf(own)) /\ amount <= account[own].reserved
       /\ account[own] \in AccountRows
  BY <1>1, <1>4, <1>8, <1>9, AccountRow, KeySets DEF Columns
<1>11. /\ Charged(own, k, price) \in AccountRows
       /\ Charged(own, k, price).actual = account[own].actual + price
       /\ Charged(own, k, price).reserved = account[own].reserved - amount
       /\ Charged(own, k, price).approved = account[own].approved
  <2>1. Less(account[own].reserved, amount) = account[own].reserved - amount
    BY <1>5, <1>10 DEF Less
  <2> DEFINE status == IF Overruns(k, price) THEN "awaiting_budget" ELSE account[own].status
             left == Less(account[own].reserved, amount)
  <2>2. Charged(own, k, price) =
          [account[own] EXCEPT !.actual = @ + price, !.reserved = left, !.status = status]
    BY DEF Charged, amount
  <2>3. status \in {"open", "awaiting_budget", "expired", "cancelled"}
    BY <1>10 DEF AccountRows
  <2>4. left = account[own].reserved - amount /\ left \in Nat /\ account[own].actual + price \in Nat
    BY <1>5, <1>10, <2>1
  <2> HIDE DEF status, left
  <2>5. Charged(own, k, price) = [status |-> status, actual |-> account[own].actual + price,
                                  reserved |-> left, approved |-> account[own].approved]
    BY <1>10, <2>2 DEF AccountRows
  <2> QED BY <1>10, <2>3, <2>4, <2>5 DEF AccountRows
<1>12. ASSUME NEW r \in Runs
       PROVE  /\ account'[r] \in AccountRows /\ account'[r].reserved = Total(HoldOf', KeysOf(r))
              /\ account'[r].actual = Total(ChargeOf', KeysOf(r))
              /\ account'[r].actual + account'[r].reserved <= account'[r].approved + Total(ExcessOf', KeysOf(r))
  <2>1. /\ Total(HoldOf', KeysOf(r)) = Total(HoldOf, KeysOf(r)) - (IF r = own THEN amount ELSE 0)
        /\ Total(ChargeOf', KeysOf(r)) = Total(ChargeOf, KeysOf(r)) + (IF r = own THEN price ELSE 0)
        /\ Total(ExcessOf', KeysOf(r)) = Total(ExcessOf, KeysOf(r)) + (IF r = own THEN excess ELSE 0)
        /\ Total(HoldOf, KeysOf(r)) \in Nat /\ Total(ChargeOf, KeysOf(r)) \in Nat
        /\ Total(ExcessOf, KeysOf(r)) \in Nat
    BY <1>8, <1>9, KeySets
  <2>2. /\ account[r] \in AccountRows /\ account[r].reserved = Total(HoldOf, KeysOf(r))
        /\ account[r].actual = Total(ChargeOf, KeysOf(r)) /\ account[r].approved \in Nat
        /\ account[r].actual + account[r].reserved <= account[r].approved + Total(ExcessOf, KeysOf(r))
    BY <1>1, AccountRow DEF Columns, RunLimits
  <2>3. CASE r = own
    <3>1. account'[r] = Charged(own, k, price)
      BY <1>1, <1>3, <1>4, <2>3 DEF AccountsOK
    <3>2. account[own].actual + (account[own].reserved - amount) + price <= account[own].approved \/ over
      BY <1>5, <1>7, <1>10 DEF Less
    <3> QED BY <1>5, <1>6, <1>11, <2>1, <2>2, <2>3, <3>1, <3>2
  <2>4. CASE r # own
    <3>1. account'[r] = account[r]
      BY <1>1, <1>3, <2>4 DEF AccountsOK
    <3> QED BY <2>1, <2>2, <2>4, <3>1
  <2> QED BY <2>3, <2>4
<1>13. AccountsOK'
  <2>1. account' = [r \in Runs |-> account'[r]]
    BY <1>1, <1>3 DEF AccountsOK
  <2>2. account' \in [Runs -> AccountRows]
    BY <1>12, <2>1
  <2> QED BY <1>1, <1>3, <2>2 DEF AccountsOK
<1>14. Columns' /\ RunLimits'
  BY <1>12 DEF Columns, RunLimits
<1>15. MonthLimit'
  <2>1. /\ Total(HoldOf', Keys) = Total(HoldOf, Keys) - amount /\ amount <= Total(HoldOf, Keys)
        /\ Total(ExcessOf', Keys) = Total(ExcessOf, Keys) + excess
        /\ Total(HoldOf, Keys) \in Nat /\ Total(ExcessOf, Keys) \in Nat /\ month \in Nat
    BY <1>1, <1>8 DEF AccountsOK
  <2>2. Amount(Held(Keys)) = Total(HoldOf, Keys)
    BY <1>1, HeldIs
  <2>3. month + (Total(HoldOf, Keys) - amount) + price <= Ceiling \/ over
    BY <1>5, <1>7, <2>1, <2>2 DEF Less
  <2>4. month' + Total(HoldOf', Keys) <= Ceiling + Total(ExcessOf', Keys)
    BY <1>1, <1>3, <1>4, <1>5, <1>6, <2>1, <2>3 DEF MonthLimit
  <2> QED BY <2>4 DEF MonthLimit
<1> QED BY <1>13, <1>14, <1>15 DEF Books

-----------------------------------------------------------------------------
(* The theorems *)

LEMMA BooksInitial == LedgerInit => Books
<1> SUFFICES ASSUME LedgerInit PROVE Books
  OBVIOUS
<1>1. Accounts
  BY LedgerInitial
<1>2. LedgerRowsOK
  BY <1>1 DEF Accounts
<1>3. AccountsOK
  BY LedgerAssumption DEF LedgerInit, AccountsOK, AccountRows
<1>4. \A k \in Keys : HoldOf[k] = 0 /\ ChargeOf[k] = 0 /\ ExcessOf[k] = 0
  BY DEF LedgerInit, HoldOf, ChargeOf, ExcessOf
<1>5. ASSUME NEW K \in SUBSET Keys
      PROVE  Total(HoldOf, K) = 0 /\ Total(ChargeOf, K) = 0 /\ Total(ExcessOf, K) = 0
  <2>1. IsFiniteSet(K)
    BY <1>2, Sums
  <2> QED BY <1>4, <2>1, TotalZero
<1>6. \A r \in Runs : account[r].reserved = 0 /\ account[r].actual = 0 /\ account[r].approved = Budget
  BY DEF LedgerInit
<1>7. Columns
  BY <1>5, <1>6, KeySets DEF Columns
<1>8. RunLimits
  <2> SUFFICES ASSUME NEW r \in Runs
               PROVE  account[r].actual + account[r].reserved <= account[r].approved + Total(ExcessOf, KeysOf(r))
    BY DEF RunLimits
  <2>1. Total(ExcessOf, KeysOf(r)) = 0
    BY <1>5, KeySets
  <2> QED BY <1>6, <2>1, LedgerAssumption
<1>9. MonthLimit
  <2>1. Total(HoldOf, Keys) = 0 /\ Total(ExcessOf, Keys) = 0 /\ month = 0
    BY <1>5 DEF LedgerInit
  <2> QED BY <2>1, LedgerAssumption DEF MonthLimit
<1> QED BY <1>1, <1>3, <1>7, <1>8, <1>9 DEF Books

LEMMA BooksInductive == Books /\ [LedgerNext]_ledgerVars => Books'
<1> SUFFICES ASSUME Books, [LedgerNext]_ledgerVars PROVE Books'
  OBVIOUS
<1>1. AccountsOK /\ Accounts'
  BY LedgerInductive DEF Books
<1>2. ASSUME NEW e \in Callers, NEW k \in Keys, Reuse(e, k) \/ Reserve(e, k) PROVE Books'
  BY <1>1, <1>2, ReuseBooks, ReserveBooks
<1>3. ASSUME NEW e \in Callers,
             \/ Answer(e) \/ Reconcile(e) \/ ReconcileAgain(e) \/ ReconcileRefused(e)
             \/ Fail(e) \/ Release(e) \/ Crash(e)
      PROVE  Books'
  <2>1. CASE Answer(e) \/ ReconcileAgain(e) \/ ReconcileRefused(e) \/ Fail(e) \/ Crash(e)
    <3>1. UNCHANGED <<account, reservation, ledger, month, lapses, months>> /\ breaks' \in {breaks, breaks + 1}
      BY <2>1 DEF Answer, ReconcileAgain, ReconcileRefused, Fail, Crash
    <3>2. AccountsOK'
      BY <1>1, <3>1 DEF AccountsOK
    <3> QED BY <1>1, <3>1, <3>2, CallBooks
  <2> QED BY <1>1, <1>3, <2>1, ReconcileBooks, ReleaseBooks
<1>4. ASSUME NEW r \in Runs, Approve(r) \/ ApprovalExpires(r) \/ CancelAccount(r) PROVE Books'
  BY <1>1, <1>4, ApproveBooks, StatusBooks
<1>5. ASSUME NEW k \in Keys, Lapse(k) PROVE Books'
  BY <1>1, <1>5, LapseBooks
<1>6. CASE NewMonth
  BY <1>1, <1>6, MonthBooks
<1>7. CASE UNCHANGED ledgerVars
  <2>1. UNCHANGED <<account, reservation, ledger, month, lapses, breaks, months>>
    BY <1>7 DEF ledgerVars
  <2>2. AccountsOK'
    BY <1>1, <2>1 DEF AccountsOK
  <2> QED BY <1>1, <2>1, <2>2, CallBooks
<1> QED
  BY <1>2, <1>3, <1>4, <1>5, <1>6, <1>7 DEF LedgerNext

LEMMA BooksInvariant == LedgerSpec => []Books
BY BooksInitial, BooksInductive, PTL DEF LedgerSpec

\* The ledger keeps to its types: no column of a run falls below zero.
THEOREM LedgerTypes == LedgerSpec => []LedgerTypeOK
<1>1. Books => LedgerTypeOK
  <2> SUFFICES ASSUME Books PROVE LedgerTypeOK
    OBVIOUS
  <2>1. LedgerRowsOK /\ EvidenceInv /\ AccountsOK
    BY DEF Books, Accounts
  <2>2. evidence \subseteq Keys
    BY <2>1 DEF EvidenceInv
  <2> QED BY <2>1, <2>2 DEF LedgerTypeOK, LedgerRowsOK, AccountsOK
<1> QED BY <1>1, BooksInvariant, PTL

\* The cost columns of a run are the sums over its rows at every moment, so
\* that the clamp at zero of GREATEST(0,...) is never needed.
THEOREM CountersAddUp == LedgerSpec => []CountersMatch
<1>1. Books => CountersMatch
  BY BooksBalance
<1> QED BY <1>1, BooksInvariant, PTL

\* What a run and the month have spent and reserved is beyond the approved
\* budget and the ceiling at most by what answers cost beyond what was
\* reserved for them.
THEOREM BudgetNeverExceeded == LedgerSpec => []BudgetHeld
<1>1. Books => BudgetHeld
  BY BooksBalance
<1> QED BY <1>1, BooksInvariant, PTL

-----------------------------------------------------------------------------
(****************************************************************************)
(* Retrieval.  A strategy that was given up for its provider keeps the     *)
(* outcome from being a shortage, and what failed its integrity is never   *)
(* publishable.  The first needs that the book of outages holds every      *)
(* strategy given up, although the strategies that share its provider end  *)
(* the outage for themselves: a strategy ends it only for itself, and only *)
(* while its own call is under way.  The cost units are bounded while the  *)
(* answers of a wave are still due, each reckoned at the dearest page.     *)
(****************************************************************************)

(* The inductive invariant *)

StrategyRowsOK ==
    /\ strategy \in [Strategies -> StrategyRows]
    /\ outage \in [Dependencies -> SUBSET Strategies]
    /\ pending \subseteq Strategies

\* Calls under way: those of the wave still to commit, and the page that is
\* qualified.
RunningInv ==
    /\ \A s \in pending : strategy[s].status = "running"
    /\ phase \in {"qualifying", "repairing"} =>
          current \in Strategies \ pending /\ strategy[current].status = "running"

Out(s) == \E d \in Dependencies : s \in outage[d]
OutageInv == \A s \in Strategies : strategy[s].status = "provider_error" => Out(s)
BrokenInv == \A s \in Strategies : strategy[s].status = "integrity_error" => broken
EndInv == phase # "done" => outcome = "none"

RetrievalInv == /\ StrategyRowsOK /\ RunningInv /\ OutageInv /\ BrokenInv /\ EndInv
                /\ OutageNotScarcity /\ IntegrityQuarantined

-----------------------------------------------------------------------------
(* The end *)

\* An outage outranks a shortage, and a failed integrity every publication.
LEMMA EndStatus ==
  ASSUME NEW explicit, NEW selected, NEW missed, NEW attested \in BOOLEAN,
         explicit = "satisfied" => selected = Wanted /\ missed = "none"
  PROVE  LET status == StatusOf(FinalReason(explicit), selected, missed, attested) IN
         /\ ActiveOutage => status \notin {"no_compatible_tracks", "partial_ready", "needs_decision"}
         /\ broken \/ ~attested => status \in {"failed_integrity", "failed_system"}
BY RetrievalAssumption DEF StatusOf, FinalReason, ProviderLost

LEMMA ConcludeKeeps ==
  ASSUME RetrievalInv, NEW explicit, Conclude(explicit)
  PROVE  RetrievalInv'
<1>1. phase' = "done" /\ UNCHANGED <<strategy, pending, outage>>
  BY DEF Conclude
<1>2. PICK selected \in 0..Least(pool, Wanted), missed \in {"none", "quality", "playlist"},
           attested \in BOOLEAN :
         /\ explicit = "satisfied" => selected = Wanted /\ missed = "none"
         /\ outcome' = StatusOf(FinalReason(explicit), selected, missed, attested)
         /\ broken' = (broken \/ ~attested)
  BY DEF Conclude
<1>3. /\ ActiveOutage => outcome' \notin {"no_compatible_tracks", "partial_ready", "needs_decision"}
      /\ broken' => outcome' \in {"failed_integrity", "failed_system"}
  BY <1>2, EndStatus
<1>4. GivenUp # {} => ActiveOutage
  BY DEF RetrievalInv, OutageInv, GivenUp, Out, ActiveOutage
<1>5. StrategyRowsOK' /\ RunningInv' /\ OutageInv' /\ BrokenInv' /\ EndInv'
  BY <1>1, <1>2 DEF RetrievalInv, StrategyRowsOK, RunningInv, OutageInv, Out, BrokenInv, EndInv
<1>6. OutageNotScarcity'
  BY <1>1, <1>3, <1>4 DEF OutageNotScarcity, GivenUp
<1>7. IntegrityQuarantined'
  BY <1>3, <1>5 DEF IntegrityQuarantined, BrokenInv
<1> QED
  BY <1>5, <1>6, <1>7 DEF RetrievalInv

-----------------------------------------------------------------------------
(* One strategy *)

\* Before its end a retrieval has no outcome, and none of its two promises to
\* keep.
LEMMA NotEnded ==
  ASSUME RetrievalInv, phase # "done", phase' # "done", outcome' = outcome
  PROVE  EndInv' /\ OutageNotScarcity' /\ IntegrityQuarantined'
BY DEF RetrievalInv, EndInv, OutageNotScarcity, IntegrityQuarantined

\* A new row of one strategy whose call is under way, while nobody else is
\* taken out of the book of outages.
LEMMA NewRow ==
  ASSUME RetrievalInv, NEW s \in Strategies, NEW row \in StrategyRows,
         strategy' = [strategy EXCEPT ![s] = row],
         outage' \in [Dependencies -> SUBSET Strategies],
         \A r \in Strategies \ {s} : Out(r) => Out(r)',
         row.status = "provider_error" => Out(s)',
         row.status = "integrity_error" => broken',
         broken => broken'
  PROVE  /\ strategy' \in [Strategies -> StrategyRows]
         /\ \A r \in Strategies \ {s} : strategy'[r] = strategy[r]
         /\ strategy'[s] = row
         /\ OutageInv' /\ BrokenInv'
<1>1. strategy \in [Strategies -> StrategyRows]
  BY DEF RetrievalInv, StrategyRowsOK
<1>2. /\ strategy' \in [Strategies -> StrategyRows] /\ strategy'[s] = row
      /\ \A r \in Strategies \ {s} : strategy'[r] = strategy[r]
  BY <1>1
<1>3. OutageInv'
  <2>1. \A r \in Strategies \ {s} : strategy'[r].status = "provider_error" => Out(r)'
    BY <1>2 DEF RetrievalInv, OutageInv
  <2>2. strategy'[s].status = "provider_error" => Out(s)'
    BY <1>2
  <2> QED
    BY <2>1, <2>2 DEF OutageInv, Out
<1>4. BrokenInv'
  BY <1>2 DEF RetrievalInv, BrokenInv
<1> QED
  BY <1>2, <1>3, <1>4

LEMMA Success ==
  ASSUME StrategyRowsOK, NEW s \in Strategies, NEW D, outage' = WithSuccess(D, s)
  PROVE  /\ outage' \in [Dependencies -> SUBSET Strategies]
         /\ \A r \in Strategies \ {s} : Out(r) => Out(r)'
BY DEF StrategyRowsOK, WithSuccess, Out

LEMMA Failure ==
  ASSUME StrategyRowsOK, NEW s \in Strategies, NEW D \in (SUBSET Dependencies) \ {{}}, outage' = WithFailure(D, s)
  PROVE  /\ outage' \in [Dependencies -> SUBSET Strategies]
         /\ \A r \in Strategies \ {s} : Out(r) => Out(r)'
         /\ Out(s)'
<1>1. \A d \in Dependencies : outage'[d] = IF d \in D THEN outage[d] \cup {s} ELSE outage[d]
  BY DEF WithFailure
<1>2. outage' \in [Dependencies -> SUBSET Strategies]
  <2>1. \A d \in Dependencies : outage[d] \cup {s} \in SUBSET Strategies
    BY DEF StrategyRowsOK
  <2> QED
    BY <2>1 DEF StrategyRowsOK, WithFailure
<1>3. \A r \in Strategies : Out(r) => Out(r)'
  BY <1>1 DEF Out
<1>4. \E d \in Dependencies : d \in D
  OBVIOUS
<1>5. Out(s)'
  BY <1>1, <1>4 DEF Out
<1> QED
  BY <1>2, <1>3, <1>5

LEMMA Unchanged ==
  ASSUME StrategyRowsOK, UNCHANGED outage
  PROVE  /\ outage' \in [Dependencies -> SUBSET Strategies]
         /\ \A r \in Strategies : Out(r) => Out(r)'
BY DEF StrategyRowsOK, Out

LEMMA LookedUp ==
  ASSUME StrategyRowsOK, NEW s \in Strategies, Lookups(s)
  PROVE  /\ outage' \in [Dependencies -> SUBSET Strategies]
         /\ \A r \in Strategies \ {s} : Out(r) => Out(r)'
BY Success, Unchanged DEF Lookups

LEMMA FailedRowType ==
  ASSUME StrategyRowsOK, NEW s \in Strategies, NEW retriable \in BOOLEAN
  PROVE  /\ FailedRow(s, retriable) \in StrategyRows
         /\ FailedRow(s, retriable).status \in {"provider_error", "available"}
<1>1. strategy[s] \in StrategyRows /\ strategy[s].failures + 1 \in Nat
  BY DEF StrategyRowsOK, StrategyRows
<1> QED
  BY <1>1 DEF FailedRow, StrategyRows

\* A new status and nothing else.
LEMMA StatusRow ==
  ASSUME StrategyRowsOK, NEW s \in Strategies,
         NEW status \in {"available", "running", "exhausted", "provider_error", "integrity_error"}
  PROVE  /\ [strategy[s] EXCEPT !.status = status] \in StrategyRows
         /\ [strategy[s] EXCEPT !.status = status].status = status
BY DEF StrategyRowsOK, StrategyRows

\* An answer of the wave that is committed at once.
LEMMA CommitKeeps ==
  ASSUME RetrievalInv, NEW s \in Strategies, Answers(s), Committed(s), NEW row \in StrategyRows,
         strategy' = [strategy EXCEPT ![s] = row],
         outage' \in [Dependencies -> SUBSET Strategies],
         \A r \in Strategies \ {s} : Out(r) => Out(r)',
         row.status = "provider_error" => Out(s)',
         row.status = "integrity_error" => broken',
         broken => broken', UNCHANGED <<phase, current, outcome>>
  PROVE  RetrievalInv'
<1>1. phase = "loop"
  BY DEF Answers
<1>2. /\ strategy' \in [Strategies -> StrategyRows] /\ OutageInv' /\ BrokenInv'
      /\ \A r \in Strategies \ {s} : strategy'[r] = strategy[r]
  BY NewRow
<1>3. StrategyRowsOK' /\ RunningInv'
  BY <1>1, <1>2 DEF RetrievalInv, StrategyRowsOK, RunningInv, Committed
<1>4. EndInv' /\ OutageNotScarcity' /\ IntegrityQuarantined'
  BY <1>1, NotEnded
<1> QED
  BY <1>2, <1>3, <1>4 DEF RetrievalInv

\* A page whose qualification ends.
LEMMA PageKeeps ==
  ASSUME RetrievalInv, NEW s \in Strategies, NEW row \in StrategyRows,
         Awaits("qualifying", s) \/ Awaits("repairing", s), BackToLoop,
         strategy' = [strategy EXCEPT ![s] = row],
         outage' \in [Dependencies -> SUBSET Strategies],
         \A r \in Strategies \ {s} : Out(r) => Out(r)',
         row.status = "provider_error" => Out(s)',
         row.status = "integrity_error" => broken',
         broken => broken', pending' \subseteq pending, UNCHANGED outcome
  PROVE  RetrievalInv'
<1>1. phase \in {"qualifying", "repairing"} /\ current = s /\ phase' = "loop"
  BY DEF Awaits, BackToLoop
<1>2. s \notin pending
  BY <1>1 DEF RetrievalInv, RunningInv
<1>3. /\ strategy' \in [Strategies -> StrategyRows] /\ OutageInv' /\ BrokenInv'
      /\ \A r \in Strategies \ {s} : strategy'[r] = strategy[r]
  BY NewRow
<1>4. StrategyRowsOK' /\ RunningInv'
  BY <1>1, <1>2, <1>3 DEF RetrievalInv, StrategyRowsOK, RunningInv
<1>5. EndInv' /\ OutageNotScarcity' /\ IntegrityQuarantined'
  BY <1>1, NotEnded
<1> QED
  BY <1>3, <1>4, <1>5 DEF RetrievalInv

\* The row that the tail of a page leaves.
LEMMA ClosedRow ==
  ASSUME RetrievalInv, NEW s \in Strategies, NEW failures \in Nat, ClosePage(s, failures)
  PROVE  \E row \in StrategyRows :
            /\ strategy' = [strategy EXCEPT ![s] = row]
            /\ row.status # "provider_error" /\ (row.status = "integrity_error" => broken')
            /\ (broken => broken') /\ BackToLoop
<1>1. PICK new \in Yields, progress \in BOOLEAN, conflict \in BOOLEAN, next \in {"page", "end", "loop"} :
        LET zeros == IF progress THEN 0 ELSE strategy[s].zeros + 1 IN
        /\ broken' = (broken \/ conflict \/ next = "loop")
        /\ strategy' = [strategy EXCEPT ![s] =
             [status |-> IF next = "loop" THEN "integrity_error"
                         ELSE IF next = "end" \/ strategy[s].rounds >= RoundsOf[s] \/ zeros >= ZeroLimit
                         THEN "exhausted" ELSE "available",
              rounds |-> strategy[s].rounds, zeros |-> zeros, failures |-> failures]]
        /\ BackToLoop
  BY ZenonT(60) DEF ClosePage
<1> DEFINE zeros == IF progress THEN 0 ELSE strategy[s].zeros + 1
           status == IF next = "loop" THEN "integrity_error"
                     ELSE IF next = "end" \/ strategy[s].rounds >= RoundsOf[s] \/ zeros >= ZeroLimit
                     THEN "exhausted" ELSE "available"
           row == [status |-> status, rounds |-> strategy[s].rounds, zeros |-> zeros, failures |-> failures]
<1>2. strategy[s] \in StrategyRows
  BY DEF RetrievalInv, StrategyRowsOK
<1>3. zeros \in Nat /\ strategy[s].rounds \in Nat
  BY <1>2 DEF StrategyRows
<1>4. status \in {"integrity_error", "exhausted", "available"} /\ (status = "integrity_error" => next = "loop")
  OBVIOUS
<1>5. strategy' = [strategy EXCEPT ![s] = row]
  BY <1>1
<1> HIDE DEF zeros, status
<1>6. row \in StrategyRows /\ row.status = status
  BY <1>3, <1>4 DEF StrategyRows
<1> HIDE DEF row
<1> QED
  BY <1>1, <1>4, <1>5, <1>6

-----------------------------------------------------------------------------
(* The steps of a wave *)

LEMMA LaunchKeeps ==
  ASSUME RetrievalInv, LaunchWave
  PROVE  RetrievalInv'
<1>1. PICK W \in SUBSET {s \in Strategies : Ready(s)} :
        /\ pending' = W
        /\ strategy' = [s \in Strategies |->
             IF s \in W THEN [strategy[s] EXCEPT !.status = "running",
                                                 !.rounds = strategy[s].rounds + Calls({s})]
             ELSE strategy[s]]
  BY DEF LaunchWave
<1>2. phase = "loop" /\ UNCHANGED <<phase, current, outage, broken, outcome>>
  BY DEF LaunchWave, InBudget, Open, AtHead
<1>3. \A s \in Strategies : strategy[s] \in StrategyRows /\ Calls({s}) = 1
  BY FS_Singleton DEF RetrievalInv, StrategyRowsOK, Calls
<1>4. ASSUME NEW s \in Strategies
      PROVE  /\ strategy'[s] \in StrategyRows
             /\ IF s \in W THEN strategy'[s].status = "running" ELSE strategy'[s] = strategy[s]
  <2>1. strategy[s].rounds + Calls({s}) \in Nat
    BY <1>3 DEF StrategyRows
  <2>2. CASE s \in W
    <3>1. strategy'[s] = [strategy[s] EXCEPT !.status = "running", !.rounds = strategy[s].rounds + Calls({s})]
      BY <1>1, <2>2
    <3> QED
      BY <1>3, <2>1, <2>2, <3>1 DEF StrategyRows
  <2>3. CASE s \notin W
    BY <1>1, <1>3, <2>3
  <2> QED
    BY <2>2, <2>3
<1>5. StrategyRowsOK'
  BY <1>1, <1>2, <1>4 DEF RetrievalInv, StrategyRowsOK
<1>6. RunningInv'
  BY <1>1, <1>2, <1>4 DEF RunningInv
<1>7. OutageInv' /\ BrokenInv'
  BY <1>2, <1>4 DEF RetrievalInv, OutageInv, Out, BrokenInv
<1>8. EndInv' /\ OutageNotScarcity' /\ IntegrityQuarantined'
  BY <1>2, NotEnded
<1> QED
  BY <1>5, <1>6, <1>7, <1>8 DEF RetrievalInv

LEMMA LocalKeeps ==
  ASSUME RetrievalInv, NEW s \in Strategies, LocalPage(s)
  PROVE  RetrievalInv'
<1> DEFINE row == [strategy[s] EXCEPT !.status = "exhausted", !.zeros = strategy[s].zeros + 1]
<1>1. StrategyRowsOK /\ strategy[s] \in StrategyRows
  BY DEF RetrievalInv, StrategyRowsOK
<1>2. row \in StrategyRows /\ row.status = "exhausted"
  <2>1. strategy[s].zeros + 1 \in Nat
    BY <1>1 DEF StrategyRows
  <2> QED
    BY <1>1, <2>1 DEF StrategyRows
<1>3. strategy' = [strategy EXCEPT ![s] = row]
  BY <1>1 DEF LocalPage, StrategyRowsOK
<1> HIDE DEF row
<1>4. Answers(s) /\ Committed(s) /\ UNCHANGED <<phase, current, outage, broken, outcome>>
  BY DEF LocalPage
<1> QED
  BY <1>1, <1>2, <1>3, <1>4, Unchanged, CommitKeeps

LEMMA DiscoverBudgetKeeps ==
  ASSUME RetrievalInv, NEW s \in Strategies, DiscoverBudget(s)
  PROVE  RetrievalInv'
<1>1. StrategyRowsOK
  BY DEF RetrievalInv
<1>2. /\ Answers(s) /\ Committed(s) /\ UNCHANGED <<phase, current, outage, broken, outcome>>
      /\ strategy' = [strategy EXCEPT ![s] = [strategy[s] EXCEPT !.status = "available"]]
  BY <1>1 DEF DiscoverBudget, StrategyRowsOK
<1> QED
  BY <1>1, <1>2, StatusRow, Unchanged, CommitKeeps

LEMMA DiscoverFailsKeeps ==
  ASSUME RetrievalInv, NEW s \in Strategies, DiscoverFails(s)
  PROVE  RetrievalInv'
<1>1. StrategyRowsOK /\ Needs[s] \in SUBSET Dependencies
  BY RetrievalAssumption DEF RetrievalInv
<1>2. Answers(s) /\ Committed(s) /\ UNCHANGED <<phase, current, broken, outcome>>
  BY DEF DiscoverFails
<1>3. PICK D \in (SUBSET Needs[s]) \ {{}} : outage' = WithFailure(D, s)
  BY DEF DiscoverFails
<1>4. PICK retriable \in BOOLEAN : strategy' = [strategy EXCEPT ![s] = FailedRow(s, retriable)]
  BY DEF DiscoverFails
<1>5. D \in (SUBSET Dependencies) \ {{}}
  BY <1>1, <1>3
<1> QED
  BY <1>1, <1>2, <1>3, <1>4, <1>5, Failure, FailedRowType, CommitKeeps

LEMMA ProofFailsKeeps ==
  ASSUME RetrievalInv, NEW s \in Strategies, ProofFails(s)
  PROVE  RetrievalInv'
<1>1. StrategyRowsOK
  BY DEF RetrievalInv
<1>2. /\ Answers(s) /\ Committed(s) /\ UNCHANGED <<phase, current, outcome>> /\ broken'
      /\ outage' = WithSuccess(Needs[s], s)
      /\ strategy' = [strategy EXCEPT ![s] = [strategy[s] EXCEPT !.status = "integrity_error"]]
  BY <1>1 DEF ProofFails, StrategyRowsOK
<1> QED
  BY <1>1, <1>2, StatusRow, Success, CommitKeeps

\* The page's call stays under way.
LEMMA DiscoveredKeeps ==
  ASSUME RetrievalInv, NEW s \in Strategies, Discovered(s)
  PROVE  RetrievalInv'
<1>1. /\ phase = "loop" /\ s \in pending /\ pending' = pending \ {s}
      /\ outage' = WithSuccess(Needs[s], s) /\ phase' = "qualifying" /\ current' = s
      /\ UNCHANGED <<strategy, broken, outcome>>
  BY DEF Discovered, Answers, Committed
<1>2. StrategyRowsOK /\ strategy[s].status = "running"
  BY <1>1 DEF RetrievalInv, RunningInv
<1>3. outage' \in [Dependencies -> SUBSET Strategies] /\ \A r \in Strategies \ {s} : Out(r) => Out(r)'
  BY <1>1, <1>2, Success
<1>4. StrategyRowsOK' /\ RunningInv' /\ BrokenInv'
  BY <1>1, <1>2, <1>3 DEF RetrievalInv, StrategyRowsOK, RunningInv, BrokenInv
<1>5. OutageInv'
  <2>1. \A r \in Strategies : strategy[r].status = "provider_error" => r # s /\ Out(r)
    BY <1>2 DEF RetrievalInv, OutageInv
  <2>2. \A r \in Strategies : strategy'[r].status = "provider_error" => Out(r)'
    BY <1>1, <1>3, <2>1
  <2> QED
    BY <2>2 DEF OutageInv, Out
<1>6. EndInv' /\ OutageNotScarcity' /\ IntegrityQuarantined'
  BY <1>1, NotEnded
<1> QED
  BY <1>4, <1>5, <1>6 DEF RetrievalInv

-----------------------------------------------------------------------------
(* The steps of a page *)

LEMMA QualifiedKeeps ==
  ASSUME RetrievalInv, NEW s \in Strategies, Qualified(s) \/ Repaired(s)
  PROVE  RetrievalInv'
<1>1. StrategyRowsOK /\ strategy[s].failures \in Nat
  BY DEF RetrievalInv, StrategyRowsOK, StrategyRows
<1>2. /\ Awaits("qualifying", s) \/ Awaits("repairing", s)
      /\ Lookups(s) /\ ClosePage(s, strategy[s].failures) /\ UNCHANGED <<pending, outcome>>
  BY DEF Qualified, Repaired
<1>3. PICK row \in StrategyRows :
        /\ strategy' = [strategy EXCEPT ![s] = row]
        /\ row.status # "provider_error" /\ (row.status = "integrity_error" => broken')
        /\ (broken => broken') /\ BackToLoop
  BY <1>1, <1>2, ClosedRow
<1> QED
  BY <1>1, <1>2, <1>3, LookedUp, PageKeeps

LEMMA QualifyBudgetKeeps ==
  ASSUME RetrievalInv, NEW s \in Strategies, QualifyBudget(s)
  PROVE  RetrievalInv'
<1>1. StrategyRowsOK
  BY DEF RetrievalInv
<1>2. /\ Awaits("qualifying", s) /\ BackToLoop /\ UNCHANGED <<pending, outage, broken, outcome>>
      /\ strategy' = [strategy EXCEPT ![s] = [strategy[s] EXCEPT !.status = "available"]]
  BY <1>1 DEF QualifyBudget, StrategyRowsOK
<1> QED
  BY <1>1, <1>2, StatusRow, Unchanged, PageKeeps

LEMMA QualifyFailsKeeps ==
  ASSUME RetrievalInv, NEW s \in Strategies, QualifyFails(s)
  PROVE  RetrievalInv'
<1>1. StrategyRowsOK /\ Qualifies[s] \in SUBSET Dependencies
  BY RetrievalAssumption DEF RetrievalInv
<1>2. Awaits("qualifying", s) /\ BackToLoop /\ UNCHANGED <<pending, broken, outcome>>
  BY DEF QualifyFails
<1>3. PICK D \in (SUBSET Qualifies[s]) \ {{}} : outage' = WithFailure(D, s)
  BY DEF QualifyFails
<1>4. PICK retriable \in BOOLEAN : strategy' = [strategy EXCEPT ![s] = FailedRow(s, retriable)]
  BY DEF QualifyFails
<1>5. D \in (SUBSET Dependencies) \ {{}}
  BY <1>1, <1>3
<1> QED
  BY <1>1, <1>2, <1>3, <1>4, <1>5, Failure, FailedRowType, PageKeeps

LEMMA ClaimKeeps ==
  ASSUME RetrievalInv, NEW s \in Strategies, ClaimRepair(s)
  PROVE  RetrievalInv'
<1>1. /\ phase = "qualifying" /\ current = s /\ phase' = "repairing" /\ Lookups(s)
      /\ UNCHANGED <<strategy, pending, current, broken, outcome>>
  BY DEF ClaimRepair, Awaits
<1>2. StrategyRowsOK /\ strategy[s].status = "running"
  BY <1>1 DEF RetrievalInv, RunningInv
<1>3. outage' \in [Dependencies -> SUBSET Strategies] /\ \A r \in Strategies \ {s} : Out(r) => Out(r)'
  BY <1>1, <1>2, LookedUp
<1>4. StrategyRowsOK' /\ RunningInv' /\ BrokenInv'
  BY <1>1, <1>2, <1>3 DEF RetrievalInv, StrategyRowsOK, RunningInv, BrokenInv
<1>5. OutageInv'
  <2>1. \A r \in Strategies : strategy[r].status = "provider_error" => r # s /\ Out(r)
    BY <1>2 DEF RetrievalInv, OutageInv
  <2>2. \A r \in Strategies : strategy'[r].status = "provider_error" => Out(r)'
    BY <1>1, <1>3, <2>1
  <2> QED
    BY <2>2 DEF OutageInv, Out
<1>6. EndInv' /\ OutageNotScarcity' /\ IntegrityQuarantined'
  BY <1>1, NotEnded
<1> QED
  BY <1>4, <1>5, <1>6 DEF RetrievalInv

LEMMA RepairFailsKeeps ==
  ASSUME RetrievalInv, NEW s \in Strategies, RepairFails(s)
  PROVE  RetrievalInv'
<1>1. StrategyRowsOK /\ strategy[s].failures + 1 \in Nat /\ Qualifies[s] \in SUBSET Dependencies
  BY RetrievalAssumption DEF RetrievalInv, StrategyRowsOK, StrategyRows
<1>2. /\ Awaits("repairing", s) /\ ClosePage(s, strategy[s].failures + 1)
      /\ UNCHANGED <<pending, outcome>>
  BY DEF RepairFails
<1>3. PICK D \in (SUBSET Qualifies[s]) \ {{}} : outage' = WithFailure(D, s)
  BY DEF RepairFails
<1>4. PICK row \in StrategyRows :
        /\ strategy' = [strategy EXCEPT ![s] = row]
        /\ row.status # "provider_error" /\ (row.status = "integrity_error" => broken')
        /\ (broken => broken') /\ BackToLoop
  BY <1>1, <1>2, ClosedRow
<1>5. D \in (SUBSET Dependencies) \ {{}}
  BY <1>1, <1>3
<1> QED
  BY <1>1, <1>2, <1>3, <1>4, <1>5, Failure, PageKeeps

LEMMA RepairBudgetKeeps ==
  ASSUME RetrievalInv, NEW s \in Strategies, RepairBudget(s)
  PROVE  RetrievalInv'
<1>1. StrategyRowsOK /\ strategy[s].failures \in Nat
  BY DEF RetrievalInv, StrategyRowsOK, StrategyRows
<1>2. /\ Awaits("repairing", s) /\ ClosePage(s, strategy[s].failures)
      /\ pending' = {} /\ UNCHANGED <<outage, outcome>>
  BY DEF RepairBudget
<1>3. PICK row \in StrategyRows :
        /\ strategy' = [strategy EXCEPT ![s] = row]
        /\ row.status # "provider_error" /\ (row.status = "integrity_error" => broken')
        /\ (broken => broken') /\ BackToLoop
  BY <1>1, <1>2, ClosedRow
<1>4. pending' \subseteq pending
  BY <1>2
<1> QED
  BY <1>1, <1>2, <1>3, <1>4, Unchanged, PageKeeps

-----------------------------------------------------------------------------
(* The theorems *)

LEMMA RetrievalInitial == RetrievalInit => RetrievalInv
<1> SUFFICES ASSUME RetrievalInit PROVE RetrievalInv
  OBVIOUS
<1>1. PICK approved \in Approved \cup {Strategies} :
         strategy = [s \in Strategies |->
              [status |-> IF s \in approved THEN "available" ELSE "exhausted",
               rounds |-> 0, zeros |-> 0, failures |-> 0]]
  BY DEF RetrievalInit
<1>2. \A s \in Strategies : strategy[s] \in StrategyRows /\ strategy[s].status \in {"available", "exhausted"}
  BY <1>1 DEF StrategyRows
<1>3. StrategyRowsOK
  BY <1>1, <1>2 DEF RetrievalInit, StrategyRowsOK
<1> QED
  BY <1>2, <1>3 DEF RetrievalInit, RetrievalInv, RunningInv, OutageInv, BrokenInv, EndInv,
     OutageNotScarcity, IntegrityQuarantined

LEMMA ProceedKeeps == RetrievalInv /\ Proceed => RetrievalInv'
<1> SUFFICES ASSUME RetrievalInv, Proceed PROVE RetrievalInv'
  OBVIOUS
<1>1. CASE \/ BudgetEnds \/ DeadlineEnds \/ SatisfiedEnds \/ CostEnds \/ RoundsEnd \/ CandidatesEnd
           \/ ExhaustedEnds
  BY <1>1, ConcludeKeeps
     DEF BudgetEnds, DeadlineEnds, SatisfiedEnds, CostEnds, RoundsEnd, CandidatesEnd, ExhaustedEnds
<1>2. CASE LaunchWave
  BY <1>2, LaunchKeeps
<1>3. ASSUME NEW s \in Strategies,
             \/ LocalPage(s) \/ DiscoverBudget(s) \/ DiscoverFails(s) \/ ProofFails(s) \/ Discovered(s)
             \/ Qualified(s) \/ QualifyBudget(s) \/ QualifyFails(s)
             \/ ClaimRepair(s) \/ Repaired(s) \/ RepairFails(s) \/ RepairBudget(s)
      PROVE  RetrievalInv'
  BY <1>3, LocalKeeps, DiscoverBudgetKeeps, DiscoverFailsKeeps, ProofFailsKeeps, DiscoveredKeeps,
     QualifiedKeeps, QualifyBudgetKeeps, QualifyFailsKeeps, ClaimKeeps, RepairFailsKeeps, RepairBudgetKeeps
<1> QED
  BY <1>1, <1>2, <1>3 DEF Proceed

LEMMA RetrievalInductive == RetrievalInv /\ [RetrievalNext]_retrievalVars => RetrievalInv'
<1> SUFFICES ASSUME RetrievalInv, [RetrievalNext]_retrievalVars PROVE RetrievalInv'
  OBVIOUS
<1>1. CASE Proceed
  BY <1>1, ProceedKeeps
<1>2. CASE Escapes \/ OptimizerExceeds \/ DeadlinePasses
  <2>1. /\ phase # "done" /\ (phase' = phase \/ phase' = "thrown")
        /\ UNCHANGED <<strategy, pending, current, outage, broken, outcome>>
    BY <1>2 DEF Escapes, OptimizerExceeds, Thrown, AtHead, DeadlinePasses
  <2>2. EndInv' /\ OutageNotScarcity' /\ IntegrityQuarantined'
    BY <2>1, NotEnded
  <2> QED
    BY <2>1, <2>2 DEF RetrievalInv, StrategyRowsOK, RunningInv, OutageInv, Out, BrokenInv
<1>3. CASE UNCHANGED retrievalVars
  BY <1>3 DEF retrievalVars, RetrievalInv, StrategyRowsOK, RunningInv, OutageInv, Out, BrokenInv, EndInv,
     OutageNotScarcity, GivenUp, IntegrityQuarantined
<1> QED
  BY <1>1, <1>2, <1>3 DEF RetrievalNext

LEMMA RetrievalInvariant == RetrievalSpec => []RetrievalInv
<1> QED
  BY RetrievalInitial, RetrievalInductive, PTL DEF RetrievalSpec

\* A strategy that was given up for its provider keeps the outcome from being
\* a shortage of tracks or a question to the visitor.
THEOREM OutagesNotScarcity == RetrievalSpec => []OutageNotScarcity
<1>1. RetrievalInv => OutageNotScarcity
  BY DEF RetrievalInv
<1> QED
  BY <1>1, RetrievalInvariant, PTL

\* What failed its integrity is never publishable.
THEOREM BrokenNeverPublished == RetrievalSpec => []IntegrityQuarantined
<1>1. RetrievalInv => IntegrityQuarantined
  BY DEF RetrievalInv
<1> QED
  BY <1>1, RetrievalInvariant, PTL

-----------------------------------------------------------------------------
(* A wave is no larger than what is left for it *)

\* The cost units that the dearest page takes, one at least.
Dearest == Max(Units \cup {1})

LEMMA DearestPage == Dearest \in Nat /\ Dearest >= 1 /\ \A u \in Units : u <= Dearest
<1>1. IsFiniteSet(Units \cup {1}) /\ Units \cup {1} \subseteq Nat
  BY RetrievalAssumption, FS_AddElement
<1>2. Dearest \in Units \cup {1} /\ \A x \in Units \cup {1} : Dearest >= x
  BY <1>1, Extremes DEF Dearest
<1>3. \A u \in Units \cup {1} : u \in Nat
  BY <1>1
<1> HIDE DEF Dearest
<1> QED BY <1>2, <1>3

\* The order of a tier has a last strategy in every wave.
LEMMA LastOfWave ==
  ASSUME strategy \in [Strategies -> StrategyRows], NEW W \in SUBSET Strategies, W # {}
  PROVE  \E s \in W : \A r \in W \ {s} : Before(r, s)
<1> DEFINE Rounds == {strategy[s].rounds : s \in W}
           most == Max(Rounds)
           Last == {s \in W : strategy[s].rounds = most}
<1>1. \A s \in W : s \in Nat /\ strategy[s].rounds \in Nat
  BY RetrievalAssumption DEF StrategyRows
<1>2. IsFiniteSet(W) /\ IsFiniteSet(Rounds)
  <2> DEFINE f == [s \in W |-> strategy[s].rounds]
  <2>1. IsFiniteSet(W)
    BY RetrievalAssumption, FS_Subset
  <2>2. f \in Surjection(W, Rounds)
    BY DEF Surjection
  <2> HIDE DEF f, Rounds
  <2> QED BY <2>1, <2>2, FS_Surjection
<1>3. most \in Rounds /\ \A n \in Rounds : most >= n
  <2>1. Rounds \subseteq Int /\ Rounds # {}
    BY <1>1
  <2> HIDE DEF Rounds
  <2> QED BY <1>2, <2>1, Extremes
<1> HIDE DEF most
<1>4. IsFiniteSet(Last) /\ Last \subseteq Int /\ Last # {}
  BY <1>1, <1>2, <1>3, FS_Subset
<1>5. Max(Last) \in Last /\ \A s \in Last : Max(Last) >= s
  <2> HIDE DEF Last
  <2> QED BY <1>4, Extremes
<1>6. PICK last \in Last : \A s \in Last : last >= s
  BY <1>5
<1>7. ASSUME NEW r \in W \ {last} PROVE Before(r, last)
  <2>1. strategy[last].rounds = most /\ strategy[r].rounds <= most /\ most \in Nat
    BY <1>1, <1>3, <1>6
  <2>2. CASE strategy[r].rounds = most
    BY <1>1, <1>6, <2>1, <2>2 DEF Before
  <2>3. CASE strategy[r].rounds # most
    BY <1>1, <2>1, <2>3 DEF Before
  <2> QED BY <2>2, <2>3
<1> QED BY <1>6, <1>7

\* One round, one unit and one call are left for it when it starts.
LEMMA RoomForWave ==
  ASSUME RetrievalTypeOK, InBudget
  PROVE  /\ WaveSize \in Nat /\ WaveSize >= 1 /\ WaveSize <= MaxConcurrent
         /\ globalRounds + WaveSize <= MaxRounds /\ cost + WaveSize <= MaxCost
<1>1. /\ globalRounds \in Nat /\ globalRounds < MaxRounds /\ cost \in Nat /\ cost < MaxCost
      /\ MaxConcurrent \in Nat /\ MaxConcurrent >= 1 /\ MaxRounds \in Nat /\ MaxCost \in Nat
  BY RetrievalAssumption DEF RetrievalTypeOK, InBudget
<1> QED BY <1>1 DEF WaveSize, UnitsLeft, Least

LEMMA WaveFits ==
  ASSUME RetrievalTypeOK, InBudget, NEW W \in SUBSET Strategies, W # {},
         IsPortfolioWave(W) \/ IsRecoveryWave(W)
  PROVE  IsFiniteSet(W) /\ Cardinality(W) \in Nat /\ Cardinality(W) <= WaveSize
<1>1. IsFiniteSet(W) /\ Cardinality(W) \in Nat
  BY RetrievalAssumption, FS_Subset, FS_CardinalityType
<1>2. CASE \E s \in Strategies : W = {s}
  BY <1>1, <1>2, FS_Singleton, RoomForWave
<1>3. CASE ~\E s \in Strategies : W = {s}
  <2>1. W = {s \in ReadyTier : Sharing(W, s) = {} /\ Cardinality({w \in W : Before(w, s)}) < WaveSize}
    BY <1>3 DEF IsPortfolioWave, IsRecoveryWave, ReadyTier
  <2>2. PICK s \in W : \A r \in W \ {s} : Before(r, s)
    BY LastOfWave DEF RetrievalTypeOK
  <2> DEFINE Earlier == {w \in W : Before(w, s)}
  <2>3. Cardinality(Earlier) < WaveSize
    BY <2>1
  <2>4. IsFiniteSet(Earlier) /\ W \ {s} \subseteq Earlier
    BY <1>1, <2>2, FS_Subset
  <2> HIDE DEF Earlier
  <2>5. Cardinality(W \ {s}) <= Cardinality(Earlier) /\ Cardinality(Earlier) \in Nat
    BY <2>4, FS_Subset, FS_CardinalityType
  <2>6. Cardinality(W \ {s}) \in Nat /\ Cardinality(W \ {s}) >= Cardinality(W) - 1
    BY <1>1, OneLess
  <2>7. WaveSize \in Nat
    BY RoomForWave
  <2> QED BY <1>1, <2>3, <2>5, <2>6, <2>7
<1> QED BY <1>1, <1>2, <1>3
-----------------------------------------------------------------------------
(* Types, and what the calls of a wave may still cost *)

RestOK ==
    /\ phase \in {"loop", "qualifying", "repairing", "done", "thrown"}
    /\ current \in Strategies \cup {Nothing}
    /\ pool \in 0..Goal /\ globalRounds \in 0..MaxRounds /\ cost \in Nat
    /\ broken \in BOOLEAN /\ failed \in BOOLEAN /\ repaired \in BOOLEAN /\ late \in BOOLEAN
    /\ stop \in StopReasons /\ outcome \in Outcomes

\* Every answer that is due is reckoned at the cost of the dearest page.
Allowed == MaxCost + MaxConcurrent * (Dearest - 1)
DueInv == cost + Cardinality(pending) * Dearest <= Allowed
SpendInv == RetrievalInv /\ RestOK /\ DueInv

LEMMA SpendTypes == RetrievalInv /\ RestOK => RetrievalTypeOK
BY DEF RetrievalInv, StrategyRowsOK, RestOK, RetrievalTypeOK

LEMMA PendingFinite ==
  ASSUME RetrievalInv
  PROVE  IsFiniteSet(pending) /\ Cardinality(pending) \in Nat
BY RetrievalAssumption, FS_Subset, FS_CardinalityType DEF RetrievalInv, StrategyRowsOK

LEMMA AllowedNumber == Allowed \in Int /\ Dearest \in Nat /\ MaxConcurrent \in Nat /\ MaxCost \in Nat
BY RetrievalAssumption, DearestPage DEF Allowed

\* An answer that is committed costs what was reckoned for it, or less.
LEMMA AnswerDue ==
  ASSUME SpendInv, NEW s \in pending, Committed(s), NEW units \in Nat, units <= Dearest, cost' = cost + units
  PROVE  DueInv'
<1>1. cost \in Nat /\ cost + Cardinality(pending) * Dearest <= Allowed
  BY DEF SpendInv, RestOK, DueInv
<1>2. IsFiniteSet(pending) /\ Cardinality(pending) \in Nat
  BY PendingFinite DEF SpendInv
<1>3. Cardinality(pending') = Cardinality(pending) - 1 /\ Cardinality(pending') \in Nat
  BY <1>2, FS_RemoveElement, FS_CardinalityType, FS_Subset DEF Committed
<1>4. (Cardinality(pending) - 1) * Dearest = Cardinality(pending) * Dearest - Dearest
  BY <1>2, AllowedNumber
<1>5. Cardinality(pending) * Dearest \in Int
  BY <1>2, AllowedNumber
<1> QED BY <1>1, <1>3, <1>4, <1>5, AllowedNumber DEF DueInv, Allowed

\* Nothing is due when the answers are dropped.
LEMMA DropDue == ASSUME SpendInv, pending' = {}, cost' = cost PROVE DueInv'
<1>1. cost \in Nat /\ cost + Cardinality(pending) * Dearest <= Allowed
  BY DEF SpendInv, RestOK, DueInv
<1>2. Cardinality(pending) * Dearest \in Nat
  BY PendingFinite, AllowedNumber DEF SpendInv
<1>3. Cardinality(pending') = 0 /\ 0 * Dearest = 0
  BY FS_EmptySet, AllowedNumber
<1> QED BY <1>1, <1>2, <1>3, AllowedNumber DEF DueInv, Allowed

\* The end.
LEMMA ConcludeSpends ==
  ASSUME SpendInv, NEW explicit \in StopReasons, Conclude(explicit)
  PROVE  RestOK' /\ DueInv'
<1>1. /\ phase' = "done" /\ stop' = explicit
      /\ UNCHANGED <<pending, current, pool, failed, repaired, globalRounds, cost, late>>
  BY DEF Conclude
<1>2. PICK selected \in 0..Least(pool, Wanted), missed \in {"none", "quality", "playlist"},
           attested \in BOOLEAN :
         /\ outcome' = StatusOf(FinalReason(explicit), selected, missed, attested)
         /\ broken' = (broken \/ ~attested)
  BY DEF Conclude
<1>3. outcome' \in Outcomes
  BY <1>2 DEF StatusOf, Outcomes
<1> QED BY <1>1, <1>2, <1>3 DEF SpendInv, RestOK, DueInv, Allowed

\* A wave.
LEMMA LaunchSpends ==
  ASSUME SpendInv, LaunchWave
  PROVE  RestOK' /\ DueInv'
<1>1. PICK W \in SUBSET {s \in Strategies : Ready(s)} :
         /\ W # {} /\ (IsPortfolioWave(W) \/ IsRecoveryWave(W))
         /\ pending' = W /\ globalRounds' = globalRounds + Cardinality(W)
  BY DEF LaunchWave, Calls
<1>2. UNCHANGED <<phase, current, pool, broken, failed, repaired, cost, late, stop, outcome>> /\ InBudget
  BY DEF LaunchWave
<1>3. RetrievalTypeOK
  BY SpendTypes DEF SpendInv
<1>4. Cardinality(W) \in Nat /\ Cardinality(W) <= WaveSize
  BY <1>1, <1>2, <1>3, WaveFits
<1>5. /\ WaveSize \in Nat /\ WaveSize <= MaxConcurrent
      /\ globalRounds + WaveSize <= MaxRounds /\ cost + WaveSize <= MaxCost
  BY <1>2, <1>3, RoomForWave
<1>6. cost \in Nat /\ globalRounds \in Nat /\ MaxRounds \in Nat
  BY RetrievalAssumption DEF SpendInv, RestOK
<1>7. globalRounds' \in 0..MaxRounds
  BY <1>1, <1>4, <1>5, <1>6
<1>8. DueInv'
  <2> DEFINE n == Cardinality(W)
  <2>1. n \in Nat /\ n <= MaxConcurrent /\ cost + n <= MaxCost /\ MaxConcurrent \in Nat /\ Dearest - 1 \in Nat
    BY <1>4, <1>5, <1>6, AllowedNumber, DearestPage
  <2> HIDE DEF n
  <2>2. n * Dearest = n + n * (Dearest - 1) /\ n * (Dearest - 1) \in Nat
    BY <2>1, AllowedNumber
  <2>3. n * (Dearest - 1) <= MaxConcurrent * (Dearest - 1)
    BY <2>1
  <2>4. MaxConcurrent * (Dearest - 1) \in Nat
    BY <2>1
  <2>5. cost + n * Dearest <= Allowed
    BY <2>1, <2>2, <2>3, <2>4, <1>6, AllowedNumber DEF Allowed
  <2> QED BY <1>1, <1>2, <2>5 DEF DueInv, Allowed, n
<1> QED BY <1>2, <1>7, <1>8 DEF SpendInv, RestOK
\* An answer, and the qualification of a page.
LEMMA AnswerSpends ==
  ASSUME SpendInv, NEW s \in Strategies,
         LocalPage(s) \/ DiscoverBudget(s) \/ DiscoverFails(s) \/ ProofFails(s) \/ Discovered(s)
  PROVE  RestOK' /\ DueInv'
<1>1. s \in pending /\ Committed(s)
  BY DEF LocalPage, DiscoverBudget, DiscoverFails, ProofFails, Discovered, Answers
<1>2. cost \in Nat
  BY DEF SpendInv, RestOK
<1>3. CASE Discovered(s)
  <2>1. PICK units \in Units : cost' = cost + units
    BY <1>3 DEF Discovered
  <2>2. units \in Nat /\ units <= Dearest
    BY <2>1, RetrievalAssumption, DearestPage
  <2>3. /\ phase' = "qualifying" /\ current' = s
        /\ UNCHANGED <<pool, broken, failed, repaired, globalRounds, late, stop, outcome>>
    BY <1>3 DEF Discovered
  <2>4. DueInv'
    BY <1>1, <2>1, <2>2, AnswerDue
  <2> QED BY <1>2, <2>1, <2>2, <2>3, <2>4 DEF SpendInv, RestOK
<1>4. CASE LocalPage(s) \/ DiscoverBudget(s) \/ DiscoverFails(s) \/ ProofFails(s)
  <2>1. /\ UNCHANGED <<phase, current, pool, repaired, globalRounds, cost, late, outcome>>
        /\ (stop' = stop \/ stop' = "budget") /\ (failed' = failed \/ failed' = TRUE)
        /\ (broken' = broken \/ broken' = TRUE)
    BY <1>4 DEF LocalPage, DiscoverBudget, DiscoverFails, ProofFails
  <2>2. cost' = cost + 0
    BY <1>2, <2>1
  <2>3. DueInv'
    BY <1>1, <2>2, AnswerDue, DearestPage
  <2>4. stop' \in StopReasons /\ failed' \in BOOLEAN /\ broken' \in BOOLEAN
    BY <2>1 DEF SpendInv, RestOK, StopReasons
  <2>5. RestOK'
    BY <2>1, <2>2, <2>4, <1>2 DEF SpendInv, RestOK
  <2> QED BY <2>3, <2>5 DEF SpendInv
<1> QED BY <1>3, <1>4

LEMMA PageSpends ==
  ASSUME SpendInv, NEW s \in Strategies,
         \/ Qualified(s) \/ QualifyBudget(s) \/ QualifyFails(s)
         \/ ClaimRepair(s) \/ Repaired(s) \/ RepairFails(s) \/ RepairBudget(s)
  PROVE  RestOK' /\ DueInv'
<1>1. UNCHANGED <<globalRounds, cost, late, outcome>>
  BY DEF Qualified, QualifyBudget, QualifyFails, ClaimRepair, Repaired, RepairFails, RepairBudget
<1>2. pool \in 0..Goal /\ broken \in BOOLEAN /\ Goal \in Nat
  BY RetrievalAssumption DEF SpendInv, RestOK
<1>3. ASSUME NEW failures, ClosePage(s, failures)
      PROVE  pool' \in 0..Goal /\ broken' \in BOOLEAN /\ phase' = "loop" /\ current' = Nothing
  <2>1. PICK new \in Yields, conflict \in BOOLEAN, next \in {"page", "end", "loop"} :
          pool' = Least(pool + new, Goal) /\ broken' = (broken \/ conflict \/ next = "loop")
    BY <1>3 DEF ClosePage
  <2>2. new \in Nat
    BY RetrievalAssumption
  <2>3. Least(pool + new, Goal) \in 0..Goal
    BY <1>2, <2>2 DEF Least
  <2> QED BY <1>2, <1>3, <2>1, <2>3 DEF ClosePage, BackToLoop
<1>4. pool' \in 0..Goal /\ broken' \in BOOLEAN
  BY <1>2, <1>3 DEF Qualified, QualifyBudget, QualifyFails, ClaimRepair, Repaired, RepairFails, RepairBudget
<1>5. phase' \in {"loop", "repairing"} /\ current' \in {current, Nothing}
  BY <1>3 DEF Qualified, QualifyBudget, QualifyFails, ClaimRepair, Repaired, RepairFails, RepairBudget,
     BackToLoop
<1>6. /\ stop' \in {stop, "budget"} /\ failed' \in {failed, TRUE} /\ repaired' \in {repaired, TRUE}
      /\ pending' = pending \/ pending' = {}
  BY DEF Qualified, QualifyBudget, QualifyFails, ClaimRepair, Repaired, RepairFails, RepairBudget
<1>7. RestOK'
  BY <1>1, <1>4, <1>5, <1>6 DEF SpendInv, RestOK, StopReasons
<1>8. CASE pending' = pending
  BY <1>1, <1>7, <1>8 DEF SpendInv, DueInv, Allowed
<1>9. CASE pending' = {}
  BY <1>1, <1>7, <1>9, DropDue
<1> QED BY <1>6, <1>8, <1>9

-----------------------------------------------------------------------------
(* The theorems *)

LEMMA SpendInitial == RetrievalInit => SpendInv
<1> SUFFICES ASSUME RetrievalInit PROVE SpendInv
  OBVIOUS
<1>1. PICK approved \in Approved \cup {Strategies} : pool \in IF approved = Strategies THEN {0} ELSE Seeds
  BY DEF RetrievalInit
<1>2. pool \in 0..Goal /\ 0 \in 0..MaxRounds
  BY <1>1, RetrievalAssumption
<1>3. RestOK
  BY <1>2 DEF RetrievalInit, RestOK, StopReasons, Outcomes
<1>4. Cardinality(pending) = 0 /\ cost = 0
  BY FS_EmptySet DEF RetrievalInit
<1>5. MaxConcurrent * (Dearest - 1) \in Nat
  BY DearestPage, AllowedNumber
<1>6. DueInv
  BY <1>4, <1>5, AllowedNumber DEF DueInv, Allowed
<1> QED BY <1>3, <1>6, RetrievalInitial DEF SpendInv

LEMMA SpendInductive == SpendInv /\ [RetrievalNext]_retrievalVars => SpendInv'
<1> SUFFICES ASSUME SpendInv, [RetrievalNext]_retrievalVars PROVE SpendInv'
  OBVIOUS
<1>1. RetrievalInv'
  BY RetrievalInductive DEF SpendInv
<1>2. CASE \/ BudgetEnds \/ DeadlineEnds \/ SatisfiedEnds \/ CostEnds \/ RoundsEnd \/ CandidatesEnd
           \/ ExhaustedEnds
  <2>1. PICK explicit \in StopReasons : Conclude(explicit)
    BY <1>2 DEF BudgetEnds, DeadlineEnds, SatisfiedEnds, CostEnds, RoundsEnd, CandidatesEnd,
       ExhaustedEnds, StopReasons
  <2> QED BY <1>1, <2>1, ConcludeSpends DEF SpendInv
<1>3. CASE LaunchWave
  BY <1>1, <1>3, LaunchSpends DEF SpendInv
<1>4. ASSUME NEW s \in Strategies,
             \/ LocalPage(s) \/ DiscoverBudget(s) \/ DiscoverFails(s) \/ ProofFails(s) \/ Discovered(s)
             \/ Qualified(s) \/ QualifyBudget(s) \/ QualifyFails(s)
             \/ ClaimRepair(s) \/ Repaired(s) \/ RepairFails(s) \/ RepairBudget(s)
      PROVE  SpendInv'
  BY <1>1, <1>4, AnswerSpends, PageSpends DEF SpendInv
<1>5. CASE \/ Escapes \/ OptimizerExceeds \/ DeadlinePasses \/ UNCHANGED retrievalVars
  <2>1. /\ UNCHANGED <<pending, current, pool, broken, failed, repaired, globalRounds, cost, stop, outcome>>
        /\ phase' \in {phase, "thrown"} /\ late' \in {late, TRUE}
    BY <1>5 DEF Escapes, OptimizerExceeds, Thrown, AtHead, DeadlinePasses, retrievalVars
  <2> QED BY <1>1, <2>1 DEF SpendInv, RestOK, DueInv, Allowed
<1> QED BY <1>2, <1>3, <1>4, <1>5 DEF RetrievalNext, Proceed

LEMMA SpendInvariant == RetrievalSpec => []SpendInv
BY SpendInitial, SpendInductive, PTL DEF RetrievalSpec

\* The rows of the strategies, the counts and the reasons keep their types:
\* no more calls than the rounds allow, and no pool beyond its goal.
THEOREM RetrievalTypes == RetrievalSpec => []RetrievalTypeOK
<1>1. SpendInv => RetrievalTypeOK
  BY SpendTypes DEF SpendInv
<1> QED BY <1>1, SpendInvariant, PTL

\* The cost units of the calls pass what is allowed by no more than one wave
\* costs beyond one unit for each of its calls: a wave is as large as the units
\* that are left when it starts, and its pages are reckoned at the dearest.
THEOREM SpendingBounded == RetrievalSpec => []SpendBounded
<1>1. SpendInv => SpendBounded
  <2> SUFFICES ASSUME SpendInv PROVE cost <= Allowed
    BY DEF SpendBounded, Allowed, Dearest
  <2>1. cost \in Nat /\ cost + Cardinality(pending) * Dearest <= Allowed
    BY DEF SpendInv, RestOK, DueInv
  <2>2. Cardinality(pending) * Dearest \in Nat
    BY PendingFinite, AllowedNumber DEF SpendInv
  <2> QED BY <2>1, <2>2, AllowedNumber
<1> QED BY <1>1, SpendInvariant, PTL

-----------------------------------------------------------------------------
(****************************************************************************)
(* The four side by side.  Spec interleaves a behaviour of one with those   *)
(* of none of the others, so that every step of it is a step of one         *)
(* service or leaves it as it is.                                           *)
(****************************************************************************)

LEMMA SideBySide ==
  ASSUME [Next]_vars
  PROVE  /\ [LedgerNext]_ledgerVars /\ [CacheNext]_cacheVars
         /\ [RetrievalNext]_retrievalVars /\ [GatewayNext]_gatewayVars
<1>1. CASE LedgerStep
  BY <1>1 DEF LedgerStep
<1>2. CASE CacheStep
  BY <1>2 DEF CacheStep
<1>3. CASE RetrievalStep
  BY <1>3 DEF RetrievalStep
<1>4. CASE GatewayStep
  BY <1>4 DEF GatewayStep
<1>5. CASE UNCHANGED vars
  BY <1>5 DEF vars
<1> QED BY <1>1, <1>2, <1>3, <1>4, <1>5 DEF Next

\* What is model-checked implements the specifications of the ledger, of the
\* cache and of the gateway: the theorems about each hold of it too.
THEOREM ServicesImplement == Spec => LedgerSpec /\ CacheSpec /\ GatewaySpec
<1>1. Init => LedgerInit /\ CacheInit /\ GatewayInit
  BY DEF Init
<1> QED BY <1>1, SideBySide, PTL DEF Spec, LedgerSpec, CacheSpec, GatewaySpec

\* The retrieval keeps its types and limits in it, whatever the others do.
LEMMA RetrievalBeside == Spec => []SpendInv
<1>1. Init => SpendInv
  BY SpendInitial DEF Init
<1>2. SpendInv /\ [Next]_vars => SpendInv'
  BY SideBySide, SpendInductive
<1> QED BY <1>1, <1>2, PTL DEF Spec

\* The four services stay within their types and limits.
THEOREM ServicesTypes == Spec => []ServicesTypeOK
<1>1. SpendInv => RetrievalTypeOK
  BY SpendTypes DEF SpendInv
<1>2. LedgerTypeOK /\ CacheTypeOK /\ RetrievalTypeOK /\ GatewayTypeOK => ServicesTypeOK
  BY DEF ServicesTypeOK
<1> QED BY <1>1, <1>2, RetrievalBeside, ServicesImplement, LedgerTypes, CacheTypes, GatewayTypes, PTL
=============================================================================
