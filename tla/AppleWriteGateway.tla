-------------------------- MODULE AppleWriteGateway --------------------------
(***************************************************************************)
(* The gate in front of every write to Apple: one advisory lock for all    *)
(* runs and replicas, and a token bucket in a row of the settings table.   *)
(* The permit's transaction takes a token and stays open during the write, *)
(* so the token is spent when the permit is released and is back in the    *)
(* bucket when its session is lost.  The bucket is refilled by the clocks  *)
(* of the processes.  Which writes a permit is refused for is the subject  *)
(* of ApplePublication.  A tick refills one unit; a write costs Cost.      *)
(***************************************************************************)
EXTENDS Integers

CONSTANTS
    Writers,      \* publications that write
    Capacity,     \* capacity of the bucket, in units
    Cost,         \* units of a token: ticks until one is refilled
    LockWait,     \* lockWaitMs
    Offsets,      \* how far a process's clock may be ahead when it is read
    MaxClock,     \* bound: the clock stops
    MaxGained,    \* bound: time the clocks of the processes add
    MaxLost       \* bound: lost sessions

NoWriter == "none"

ASSUME GatewayAssumption ==
    /\ NoWriter \notin Writers
    /\ Capacity \in Nat /\ Cost \in Nat \ {0} /\ Capacity >= Cost
    /\ LockWait \in Nat /\ Offsets \subseteq Nat
    /\ MaxClock \in Nat /\ MaxGained \in Nat /\ MaxLost \in Nat

VARIABLES
    time,        \* the time
    bucket,      \* the stored state of the bucket
    uncommitted, \* the state of it in the transaction of the permit
    holder,      \* the writer that holds the advisory lock between its statements
    writer,      \* the call of acquireAppleWritePermit or the write, of each writer
    credit,      \* what a bucket that keeps exact time would hold
    gained,      \* by how much a later reading of a clock was further ahead
    lost         \* how many sessions were lost while a write was under way

gatewayVars == <<time, bucket, uncommitted, holder, writer, credit, gained, lost>>

\* at: updatedAtMs, as the process read it; ahead: by how much it was ahead,
\* which no code reads.
BucketRows == [tokens : 0..Capacity, at : Nat, ahead : Nat]
\* "detached": the session of the permit is gone and its write is under way.
WriterRows == [pc : {"idle", "asking", "waiting", "writing", "detached"},
               deadline : Nat, wake : Nat]

\* A bucket without a row is a full one.
FullBucket == [tokens |-> Capacity, at |-> 0, ahead |-> 0]
IdleWriter == [pc |-> "idle", deadline |-> 0, wake |-> 0]

GatewayInit ==
    /\ time = 0 /\ credit = Capacity /\ gained = 0 /\ lost = 0
    /\ bucket = FullBucket /\ uncommitted = FullBucket
    /\ holder = NoWriter
    /\ writer = [w \in Writers |-> IdleWriter]

-----------------------------------------------------------------------------
(* refillAppleWriteTokenBucket and appleWriteTokenWaitMs *)

Lesser(a, b) == IF a <= b THEN a ELSE b
\* A clock that was set back refills nothing, and is the new origin.
Elapsed(since, now) == IF now <= since THEN 0 ELSE now - since
\* Mutant: the origin of the next refill stays.
RefilledAgain(ahead) ==
    [bucket EXCEPT !.tokens = Lesser(Capacity, @ + Elapsed(bucket.at, time + ahead))]
Refilled(ahead) ==
    [tokens |-> Lesser(Capacity, bucket.tokens + Elapsed(bucket.at, time + ahead)),
     at |-> time + ahead, ahead |-> ahead]
TokenWait(tokens) == Cost - tokens

-----------------------------------------------------------------------------
(* acquireAppleWritePermit *)

AskPermit(w) ==
    /\ writer[w].pc = "idle"
    /\ \E ahead \in Offsets :
         writer' = [writer EXCEPT ![w] = [pc |-> "asking", deadline |-> time + ahead + LockWait, wake |-> 0]]
    /\ UNCHANGED <<time, bucket, uncommitted, holder, credit, gained, lost>>

\* Every reading of a clock that is further ahead than the one before counts
\* time that has not passed.
Gains(ahead) == gained' = gained + Elapsed(bucket.ahead, ahead) /\ gained' <= MaxGained

\* The lock is free and there is a token: the transaction stays open.
Permit(w) ==
    /\ writer[w].pc = "asking" /\ holder = NoWriter
    /\ \E ahead \in Offsets :
         /\ Refilled(ahead).tokens >= Cost
         /\ uncommitted' = [Refilled(ahead) EXCEPT !.tokens = @ - Cost]
         /\ Gains(ahead)
    /\ holder' = w
    /\ writer' = [writer EXCEPT ![w] = [IdleWriter EXCEPT !.pc = "writing"]]
    /\ credit' = credit - Cost
    /\ UNCHANGED <<time, bucket, lost>>

\* There is none: the refill is committed, the lock released, and the caller
\* waits for the rest of a token unless that is past its deadline.
Short(w) ==
    /\ writer[w].pc = "asking" /\ holder = NoWriter
    /\ \E ahead \in Offsets :
         /\ Refilled(ahead).tokens < Cost
         /\ bucket' = Refilled(ahead)
         /\ Gains(ahead)
         /\ \E now \in {time + a : a \in Offsets} :
              writer' = [writer EXCEPT ![w] =
                  IF now + TokenWait(Refilled(ahead).tokens) > @.deadline THEN IdleWriter
                  ELSE [@ EXCEPT !.pc = "waiting", !.wake = time + TokenWait(Refilled(ahead).tokens)]]
    /\ UNCHANGED <<time, uncommitted, holder, credit, lost>>

Wake(w) ==
    /\ writer[w].pc = "waiting" /\ writer[w].wake <= time
    /\ writer' = [writer EXCEPT ![w].pc = "asking", ![w].wake = 0]
    /\ UNCHANGED <<time, bucket, uncommitted, holder, credit, gained, lost>>

\* The lock is not free: the caller tries again until its deadline.
StaysBusy(w) ==
    /\ writer[w].pc = "asking" /\ holder # NoWriter
    /\ \E ahead \in Offsets : time + ahead >= writer[w].deadline
    /\ writer' = [writer EXCEPT ![w] = IdleWriter]
    /\ UNCHANGED <<time, bucket, uncommitted, holder, credit, gained, lost>>

\* The fences refuse the permit and its transaction is rolled back, a
\* statement fails, or the caller's signal is aborted.
PermitDenied(w) ==
    /\ writer[w].pc \in {"asking", "waiting"}
    /\ writer' = [writer EXCEPT ![w] = IdleWriter]
    /\ UNCHANGED <<time, bucket, uncommitted, holder, credit, gained, lost>>

-----------------------------------------------------------------------------
(* The write, and the release of its permit *)

ReleasePermit(w) ==
    /\ writer[w].pc = "writing"
    /\ bucket' = uncommitted /\ uncommitted' = FullBucket
    /\ holder' = NoWriter
    /\ writer' = [writer EXCEPT ![w] = IdleWriter]
    /\ UNCHANGED <<time, credit, gained, lost>>

\* The session ends, with its transaction and its lock; the write may go on.
LosePermit(w) ==
    /\ writer[w].pc = "writing" /\ lost < MaxLost
    /\ holder' = NoWriter /\ uncommitted' = FullBucket
    /\ writer' = [writer EXCEPT ![w].pc = "detached"]
    /\ lost' = lost + 1
    /\ UNCHANGED <<time, bucket, credit, gained>>

\* release() of such a permit throws.
EndDetached(w) ==
    /\ writer[w].pc = "detached"
    /\ writer' = [writer EXCEPT ![w] = IdleWriter]
    /\ UNCHANGED <<time, bucket, uncommitted, holder, credit, gained, lost>>

TimePasses ==
    /\ time < MaxClock
    /\ time' = time + 1
    /\ credit' = Lesser(Capacity, credit + 1)
    /\ UNCHANGED <<bucket, uncommitted, holder, writer, gained, lost>>

GatewayNext ==
    \/ \E w \in Writers : \/ AskPermit(w) \/ Permit(w) \/ Short(w) \/ Wake(w)
                          \/ StaysBusy(w) \/ PermitDenied(w)
                          \/ ReleasePermit(w) \/ LosePermit(w) \/ EndDetached(w)
    \/ TimePasses

GatewaySpec == GatewayInit /\ [][GatewayNext]_gatewayVars

-----------------------------------------------------------------------------
(* Properties *)

GatewayTypeOK ==
    /\ time \in Nat /\ gained \in Nat /\ lost \in Nat /\ credit \in Int
    /\ bucket \in BucketRows /\ uncommitted \in BucketRows
    /\ holder \in Writers \cup {NoWriter}
    /\ writer \in [Writers -> WriterRows]

\* Apple is never sent more writes than a bucket that keeps exact time allows,
\* in any stretch of time and for all replicas together, except one for each
\* session that was lost during its write, and as many as fit in the time by
\* which the clocks of later processes were further ahead.
RateHeld == credit + Cost * lost + gained >= 0
=============================================================================
