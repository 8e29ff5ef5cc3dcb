---------------------------- MODULE CatalogCache ----------------------------
(***************************************************************************)
(* One key of the Apple catalog cache.  Executions in several processes    *)
(* ask for the same page of the catalog: an entry that has not expired is  *)
(* served, a call under way in the same process is joined, and a lease in  *)
(* the database keeps the processes from filling the entry at the same     *)
(* time.  Every failure of the cache itself is passed over: the provider   *)
(* is asked without a lease.  A tick is one interval of polling.           *)
(***************************************************************************)
EXTENDS Integers, FiniteSets

CONSTANTS
    Requests,      \* executions that ask for the key, one time after another
    Processes,     \* worker processes
    ProcessOf,     \* the process of a request
    LeaseTime,     \* leaseMs
    WaitTime,      \* coalescingWaitMs, at least leaseMs
    MaxFaults,     \* bound: statements on the cache tables that fail
    MaxDeaths      \* bound: processes that die

Nobody == "nobody"

ASSUME CacheAssumption ==
    /\ IsFiniteSet(Requests) /\ ProcessOf \in [Requests -> Processes] /\ Nobody \notin Requests
    /\ LeaseTime \in Nat \ {0} /\ WaitTime \in Nat /\ WaitTime >= LeaseTime
    /\ MaxFaults \in Nat /\ MaxDeaths \in Nat

VARIABLES
    entry,         \* the row of apple_catalog_cache_entries; a stale one is "none"
    fillLease,     \* the row of apple_catalog_cache_leases and what is left of it
    inflight,      \* localInflightByRepository: the call under way in a process
    request,       \* the requests
    renewal,       \* requests whose renewal statement is on its way
    sinceFill,     \* ticks since a call under a lease was last under way
    faults, deaths

cacheVars == <<entry, fillLease, inflight, request, renewal, sinceFill, faults, deaths>>

EntryKinds == {"none", "good", "malformed"}
FillLeaseRows == [owner : Requests \cup {Nobody}, left : 0..LeaseTime]
\* waited: its polls; age: ticks since its lease was renewed; ok: its promise
\* has its answer; leader: the request whose call it joined.
RequestRows ==
    [pc : {"idle", "purging", "joining", "following", "acquiring", "sleeping", "polling",
           "retrying", "fetching", "storing", "releasing", "served", "failed", "busy"},
     waited : 0..WaitTime, leased : BOOLEAN, age : 0..LeaseTime, ok : BOOLEAN,
     leader : Requests \cup {Nobody}]
NewRequest == [pc |-> "idle", waited |-> 0, leased |-> FALSE, age |-> 0, ok |-> FALSE, leader |-> Nobody]
Ended(pc) == [NewRequest EXCEPT !.pc = pc]

CacheInit ==
    /\ entry \in EntryKinds
    /\ fillLease = [owner |-> Nobody, left |-> 0]
    /\ inflight = [p \in Processes |-> Nobody]
    /\ request = [c \in Requests |-> NewRequest]
    /\ renewal = {}
    /\ sinceFill = WaitTime + 1
    /\ faults = 0 /\ deaths = 0

-----------------------------------------------------------------------------
(* Helpers *)

Become(c, pc) == request' = [request EXCEPT ![c].pc = pc]
End(c, pc) == request' = [request EXCEPT ![c] = Ended(pc)]
Faulty == faults < MaxFaults /\ faults' = faults + 1

\* tryAcquireAppleCatalogCacheLease: free, expired, or the request's own.  The
\* expired leases that a process deletes first are as good as none.
Obtains(c) == fillLease.owner \in {Nobody, c} \/ fillLease.left = 0
Granted(c) == [owner |-> c, left |-> LeaseTime]

\* The provider is asked, and whoever asks in the process from now on joins.
Fetch(c, leased) ==
    /\ request' = [request EXCEPT ![c].pc = "fetching", ![c].leased = leased, ![c].waited = 0]
    /\ inflight' = [inflight EXCEPT ![ProcessOf[c]] = c]

\* Requests that fill the entry and renew their lease.
Filling == {c \in Requests : request[c].pc \in {"fetching", "storing"} /\ request[c].leased}

-----------------------------------------------------------------------------
(* cached(): the entry, the call under way, the lease *)

Look(c) ==
    /\ request[c].pc = "idle"
    /\ CASE entry = "good" -> End(c, "served")
         [] entry = "malformed" -> Become(c, "purging")
         [] OTHER -> Become(c, "joining")
    /\ UNCHANGED <<entry, fillLease, inflight, renewal, sinceFill, faults, deaths>>
LookFails(c) ==
    /\ request[c].pc = "idle" /\ Faulty
    /\ Become(c, "joining")
    /\ UNCHANGED <<entry, fillLease, inflight, renewal, sinceFill, deaths>>

\* A malformed entry is deleted, and with it one that was stored meanwhile.
Purge(c) ==
    /\ request[c].pc = "purging"
    /\ entry' = "none"
    /\ Become(c, "joining")
    /\ UNCHANGED <<fillLease, inflight, renewal, sinceFill, faults, deaths>>

Join(c) ==
    LET leader == inflight[ProcessOf[c]] IN
    /\ request[c].pc = "joining"
    /\ request' = [request EXCEPT ![c].pc = IF leader = Nobody THEN "acquiring" ELSE "following",
                                  ![c].leader = leader]
    /\ UNCHANGED <<entry, fillLease, inflight, renewal, sinceFill, faults, deaths>>

Acquire(c) ==
    /\ request[c].pc = "acquiring"
    /\ IF Obtains(c)
       THEN fillLease' = Granted(c) /\ Fetch(c, TRUE)
       ELSE Become(c, "sleeping") /\ UNCHANGED <<fillLease, inflight>>
    /\ UNCHANGED <<entry, renewal, sinceFill, faults, deaths>>

-----------------------------------------------------------------------------
(* Waiting for another process *)

\* Mutant: the wait is not raised to the duration of the lease.
PollsBelowLease == LeaseTime - 1
Polls == WaitTime

Poll(c) ==
    /\ request[c].pc = "polling"
    /\ IF entry = "good" THEN End(c, "served") ELSE Become(c, "retrying")
    /\ UNCHANGED <<entry, fillLease, inflight, renewal, sinceFill, faults, deaths>>

Retry(c) ==
    /\ request[c].pc = "retrying"
    /\ IF Obtains(c)
       THEN fillLease' = Granted(c) /\ Fetch(c, TRUE)
       ELSE /\ Become(c, IF request[c].waited >= Polls THEN "busy" ELSE "sleeping")
            /\ UNCHANGED <<fillLease, inflight>>
    /\ UNCHANGED <<entry, renewal, sinceFill, faults, deaths>>

\* A statement of the lease, or of a poll, fails.
ProceedUnleased(c) ==
    /\ request[c].pc \in {"acquiring", "polling", "retrying"} /\ Faulty
    /\ Fetch(c, FALSE)
    /\ UNCHANGED <<entry, fillLease, renewal, sinceFill, deaths>>

\* The signal of a waiting request is aborted.
AbortWait(c) ==
    /\ request[c].pc = "sleeping"
    /\ End(c, "failed")
    /\ UNCHANGED <<entry, fillLease, inflight, renewal, sinceFill, faults, deaths>>

-----------------------------------------------------------------------------
(* The call of the provider *)

Answered(c) ==
    /\ request[c].pc = "fetching"
    /\ Become(c, "storing")
    /\ UNCHANGED <<entry, fillLease, inflight, renewal, sinceFill, faults, deaths>>

\* The promise settles: the requests that joined it get its answer or its
\* error, an abort of the leader included; the timer is cleared; and unless
\* another call took its place, the call is no longer under way.
Lands(c) == inflight[ProcessOf[c]] = c
Outcome(ok) == IF ok THEN "served" ELSE "failed"
Settle(c, ok) ==
    /\ request' = [d \in Requests |->
         CASE d = c -> IF request[c].leased THEN [Ended("releasing") EXCEPT !.ok = ok] ELSE Ended(Outcome(ok))
           [] request[d].pc = "following" /\ request[d].leader = c -> Ended(Outcome(ok))
           [] OTHER -> request[d]]
    /\ inflight' = [inflight EXCEPT ![ProcessOf[c]] = IF Lands(c) THEN Nobody ELSE @]
    /\ sinceFill' = IF request[c].leased THEN 0 ELSE sinceFill

\* putAppleCatalogCacheEntry overwrites; its failure is passed over.
Store(c) ==
    /\ request[c].pc = "storing"
    /\ entry' = "good"
    /\ Settle(c, TRUE)
    /\ UNCHANGED <<fillLease, renewal, faults, deaths>>
StoreFails(c) ==
    /\ request[c].pc = "storing" /\ Faulty
    /\ Settle(c, TRUE)
    /\ UNCHANGED <<entry, fillLease, renewal, deaths>>

\* The provider fails, gives a malformed answer, or the signal is aborted.
FetchFails(c) ==
    /\ request[c].pc = "fetching"
    /\ Settle(c, FALSE)
    /\ UNCHANGED <<entry, fillLease, renewal, faults, deaths>>

\* releaseAppleCatalogCacheLease deletes the request's own lease only.
\* Mutant: whoever owns it.
ReleasesAny(c) == TRUE
Releases(c) == fillLease.owner = c
ReleaseFill(c) ==
    /\ request[c].pc = "releasing"
    /\ fillLease' = IF Releases(c) THEN [owner |-> Nobody, left |-> 0] ELSE fillLease
    /\ End(c, Outcome(request[c].ok))
    /\ UNCHANGED <<entry, inflight, renewal, sinceFill, faults, deaths>>
ReleaseFillFails(c) ==
    /\ request[c].pc = "releasing" /\ Faulty
    /\ End(c, Outcome(request[c].ok))
    /\ UNCHANGED <<entry, fillLease, inflight, renewal, sinceFill, deaths>>

-----------------------------------------------------------------------------
(* The renewal timer *)

\* Mutant: the timer's period is that of the lease.
RenewEachLease == LeaseTime
RenewEach == LeaseTime \div 2

SendRenewal(c) ==
    /\ c \in Filling /\ request[c].age >= RenewEach
    /\ request' = [request EXCEPT ![c].age = 0]
    /\ renewal' = renewal \cup {c}
    /\ UNCHANGED <<entry, fillLease, inflight, sinceFill, faults, deaths>>

\* The statement runs, also when its request has settled and released the
\* lease meanwhile, or its process has died.
Renew(c) ==
    /\ c \in renewal
    /\ fillLease' = IF Obtains(c) THEN Granted(c) ELSE fillLease
    /\ renewal' = renewal \ {c}
    /\ UNCHANGED <<entry, inflight, request, sinceFill, faults, deaths>>
RenewFails(c) ==
    /\ c \in renewal /\ Faulty
    /\ renewal' = renewal \ {c}
    /\ UNCHANGED <<entry, fillLease, inflight, request, sinceFill, deaths>>

-----------------------------------------------------------------------------
(* Processes and time *)

EndStates == {"served", "failed", "busy"}
\* The next time an execution asks, under a new name as owner: the old one is
\* in no statement and no row any more.
Again(c) ==
    /\ request[c].pc \in EndStates /\ c \notin renewal /\ fillLease.owner # c
    /\ request' = [request EXCEPT ![c] = NewRequest]
    /\ UNCHANGED <<entry, fillLease, inflight, renewal, sinceFill, faults, deaths>>

OfProcess(p) == {c \in Requests : ProcessOf[c] = p}
Die(p) ==
    /\ deaths < MaxDeaths /\ deaths' = deaths + 1
    /\ request' = [c \in Requests |-> IF c \in OfProcess(p) THEN Ended("failed") ELSE request[c]]
    /\ inflight' = [inflight EXCEPT ![p] = Nobody]
    /\ sinceFill' = IF Filling \cap OfProcess(p) # {} THEN 0 ELSE sinceFill
    /\ UNCHANGED <<entry, fillLease, renewal, faults>>

Expire ==
    /\ entry = "good"
    /\ entry' = "none"
    /\ UNCHANGED <<fillLease, inflight, request, renewal, sinceFill, faults, deaths>>

\* Statements take no tick, the timer fires in time, and a tick is one poll.
Timely ==
    /\ renewal = {}
    /\ \A c \in Requests : request[c].pc \in {"idle", "following", "sleeping", "fetching"} \cup EndStates
    /\ \A c \in Filling : request[c].age < RenewEach
CacheTick ==
    /\ Timely
    /\ request' = [c \in Requests |->
         CASE request[c].pc = "sleeping" -> [request[c] EXCEPT !.pc = "polling", !.waited = @ + 1]
           [] c \in Filling -> [request[c] EXCEPT !.age = @ + 1]
           [] OTHER -> request[c]]
    /\ fillLease' = [fillLease EXCEPT !.left = IF @ = 0 THEN 0 ELSE @ - 1]
    /\ sinceFill' = IF sinceFill > WaitTime THEN sinceFill ELSE sinceFill + 1
    /\ UNCHANGED <<entry, inflight, renewal, faults, deaths>>

RequestStep(c) ==
    \/ Look(c) \/ LookFails(c) \/ Purge(c) \/ Join(c) \/ Acquire(c)
    \/ Poll(c) \/ Retry(c) \/ ProceedUnleased(c) \/ AbortWait(c)
    \/ Answered(c) \/ Store(c) \/ StoreFails(c) \/ FetchFails(c)
    \/ ReleaseFill(c) \/ ReleaseFillFails(c) \/ Again(c)
    \/ SendRenewal(c) \/ Renew(c) \/ RenewFails(c)

CacheNext ==
    \/ \E c \in Requests : RequestStep(c)
    \/ \E p \in Processes : Die(p)
    \/ Expire \/ CacheTick

CacheSpec == CacheInit /\ [][CacheNext]_cacheVars

-----------------------------------------------------------------------------
(* Properties *)

CacheTypeOK ==
    /\ entry \in EntryKinds
    /\ fillLease \in FillLeaseRows
    /\ inflight \in [Processes -> Requests \cup {Nobody}]
    /\ request \in [Requests -> RequestRows]
    /\ renewal \subseteq Requests
    /\ sinceFill \in Nat /\ faults \in Nat /\ deaths \in Nat

\* The provider is asked by one request at a time; each failure of the cache
\* tables adds at most one.
SingleFill == Cardinality({c \in Requests : request[c].pc = "fetching"}) <= 1 + faults

\* A request that gives up has waited for a call that was under way during its
\* wait: a lease left behind by a process that died, or created again by a
\* renewal that came after its release, refuses nobody.
GivesUp(c) == request[c].pc # "busy" /\ request'[c].pc = "busy"
BusyWhileFilled ==
    [][\A c \in Requests : GivesUp(c) => Filling # {} \/ sinceFill < request[c].waited]_cacheVars

\* The lease of a request that fills the entry is lost by its expiry only: no
\* other request, one whose own lease it was before included, releases it.
LosesLease(c) == c \in Filling /\ fillLease.owner = c /\ fillLease'.owner # c
LeaseKept == [][\A c \in Requests : LosesLease(c) => fillLease.left = 0]_cacheVars

\* Whoever joins a call waits for one that is under way.
FollowsCall == \A c \in Requests :
    request[c].pc = "following" => request[request[c].leader].pc \in {"fetching", "storing"}
=============================================================================
