------------------------------ MODULE Retrieval ------------------------------
(***************************************************************************)
(* executeRetrievalV3: a portfolio of discovery strategies is asked in     *)
(* waves of calls that share no provider, the pages of a wave are          *)
(* qualified one after another in the order of the portfolio, and a reason *)
(* to stop is turned into the outcome of the run.  A provider that fails   *)
(* is an outage until the strategy that met it has an answer again.  What  *)
(* a page holds is data: it adds recording families to the pool or not.    *)
(* The canonical contract is modelled, whose optimizer decides whether a   *)
(* pool of enough families can make an exact playlist.                     *)
(***************************************************************************)
EXTENDS Integers, FiniteSets, FiniteSetsExt

CONSTANTS
    Strategies,     \* their ordinals in the portfolio
    Tier,           \* tier of a strategy
    RoundsOf,       \* maximumRounds of a strategy
    Dependencies,   \* upstream providers
    Needs,          \* discoveryDependencyIds; none: orchestration_local
    Qualifies,      \* qualificationDependencyIds
    ZeroLimit,      \* zeroQualifiedYieldLimit
    MaxConcurrent,  \* maximumConcurrentDiscovery
    MaxRounds,      \* maximumGlobalRounds
    MaxCost,        \* maximumCostUnits
    MaxFailures,    \* maximumProviderFailuresPerStrategy
    Wanted,         \* requestedTrackCount
    Goal,           \* qualifiedPoolGoal
    Seeds,          \* sizes of the pool a continuation starts with
    Approved,       \* approvedStrategyIds of a continuation
    Yields,         \* new recording families of a page
    Units           \* cost units of a page

ASSUME RetrievalAssumption ==
    /\ Strategies \subseteq Nat /\ IsFiniteSet(Strategies)
    /\ Tier \in [Strategies -> Nat] /\ RoundsOf \in [Strategies -> Nat \ {0}]
    /\ Needs \in [Strategies -> SUBSET Dependencies]
    /\ Qualifies \in [Strategies -> SUBSET Dependencies]
    /\ ZeroLimit \in Nat \ {0} /\ MaxConcurrent \in Nat \ {0} /\ MaxRounds \in Nat \ {0}
    /\ MaxCost \in Nat /\ MaxFailures \in Nat \ {0}
    /\ Units \subseteq Nat /\ Units # {} /\ IsFiniteSet(Units)
    /\ Wanted \in Nat \ {0} /\ Goal \in Nat /\ Goal >= Wanted
    /\ Seeds \subseteq 0..Goal /\ Approved \subseteq SUBSET Strategies /\ Yields \subseteq Nat

VARIABLES
    phase,        \* the loop, an awaited call of qualify, or how it ended
    strategy,     \* states: what each strategy has done
    pending,      \* pendingDiscoveries: the answers of the wave still to commit
    current,      \* the strategy whose page is qualified
    outage,       \* unresolvedStrategyIds of every dependency
    pool,         \* recording families, as far as the goal
    broken,       \* integrityFailureCount > 0
    failed,       \* providerFailureCount > 0
    repaired,     \* the one semantic recovery was claimed
    globalRounds, \* calls so far
    cost,         \* totalCostUnits
    late,         \* the deadline has passed
    stop,         \* stopReason
    outcome       \* status of the result

retrievalVars == <<phase, strategy, pending, current, outage, pool, broken, failed, repaired,
                   globalRounds, cost, late, stop, outcome>>

StrategyRows == [status : {"available", "running", "exhausted", "provider_error", "integrity_error"},
                 rounds : Nat, zeros : Nat, failures : Nat]
StopReasons == {"none", "satisfied", "budget", "rounds", "candidates", "deadline",
                "exhausted", "provider_failure", "integrity_failure"}
Outcomes == {"none", "exact_ready", "partial_ready", "needs_decision", "no_compatible_tracks",
             "failed_system", "failed_integrity"}
Nothing == 0 - 1

\* A first execution has every strategy, a continuation the approved ones or,
\* when only the optimizer is tried again, none.
RetrievalInit ==
    /\ phase = "loop" /\ pending = {} /\ current = Nothing
    /\ \E approved \in Approved \cup {Strategies} :
         /\ pool \in IF approved = Strategies THEN {0} ELSE Seeds
         /\ strategy = [s \in Strategies |->
              [status |-> IF s \in approved THEN "available" ELSE "exhausted",
               rounds |-> 0, zeros |-> 0, failures |-> 0]]
    /\ outage = [d \in Dependencies |-> {}]
    /\ broken \in BOOLEAN /\ (broken => pool > 0)
    /\ failed = FALSE /\ repaired = FALSE /\ late = FALSE
    /\ globalRounds = 0 /\ cost = 0
    /\ stop = "none" /\ outcome = "none"

-----------------------------------------------------------------------------
(* Helpers *)

Least(a, b) == IF a <= b THEN a ELSE b
Local(s) == Needs[s] = {}

\* availableStrategies, and the order it sorts a tier in.
Ready(s) ==
    /\ strategy[s].status = "available"
    /\ strategy[s].rounds < RoundsOf[s] /\ strategy[s].zeros < ZeroLimit
Before(a, b) ==
    \/ strategy[a].rounds < strategy[b].rounds
    \/ strategy[a].rounds = strategy[b].rounds /\ a < b
ReadyTier == {s \in Strategies : Ready(s) /\ \A r \in Strategies : Ready(r) => Tier[s] <= Tier[r]}

\* No more calls than the rounds and the cost units that are left, one at
\* least.
\* Mutant: the cost units are not looked at.
UnitsLeft == IF MaxCost - cost > 1 THEN MaxCost - cost ELSE 1
WaveSizeUncosted == Least(MaxConcurrent, MaxRounds - globalRounds)
WaveSize == Least(Least(MaxConcurrent, MaxRounds - globalRounds), UnitsLeft)

\* nextStrategyWave: a local strategy of the lowest tier alone; otherwise its
\* strategies in their order, unless one before shares a dependency, until
\* the wave is full.
Sharing(W, s) == {w \in W : Before(w, s) /\ Needs[w] \cap Needs[s] # {}}
IsPortfolioWave(W) ==
    IF \E s \in ReadyTier : Local(s)
    THEN \E s \in ReadyTier : Local(s) /\ W = {s} /\ \A r \in ReadyTier : Local(r) => ~Before(r, s)
    ELSE W = {s \in ReadyTier : Sharing(W, s) = {} /\ Cardinality({w \in W : Before(w, s)}) < WaveSize}

\* A pool of enough families that lacks quality is given one strategy, an
\* expansion or one that was productive.
IsRecoveryWave(W) == pool >= Wanted /\ \E s \in Strategies : Ready(s) /\ ~Local(s) /\ W = {s}

\* observeDependencyFailure, observeDependencySuccess.
\* Mutant: an answer ends the outage for every strategy.
WithFailure(D, s) == [d \in Dependencies |-> IF d \in D THEN outage[d] \cup {s} ELSE outage[d]]
WithSuccessForAll(D, s) == [d \in Dependencies |-> IF d \in D THEN {} ELSE outage[d]]
WithSuccess(D, s) == [d \in Dependencies |-> IF d \in D THEN outage[d] \ {s} ELSE outage[d]]
ActiveOutage == \E d \in Dependencies : outage[d] # {}

\* The row of a strategy whose call failed, for good or not.
FailedRow(s, retriable) ==
    LET failures == strategy[s].failures + 1 IN
    [strategy[s] EXCEPT !.failures = failures,
                        !.status = IF ~retriable \/ failures >= MaxFailures THEN "provider_error" ELSE "available"]

-----------------------------------------------------------------------------
(* The end: finalStopReason and the status of the outcome *)

\* Integrity comes before everything, a satisfied pool before an outage, and
\* an outage before every other reason.  A failure that was overcome counts
\* when nothing was found and nothing else stopped the loop.
ProviderLost(explicit) == ActiveOutage \/ (explicit = "exhausted" /\ pool = 0 /\ failed)
FinalReason(explicit) ==
    IF broken THEN "integrity_failure"
    ELSE IF explicit = "satisfied" THEN explicit
    ELSE IF ProviderLost(explicit) THEN "provider_failure" ELSE explicit

\* missed: the quality floor leaves the selection short, or the playlist's
\* constraints are not met together by a pool of enough tracks; attested: the
\* evidence of the selection holds when it is checked again.
StatusOf(reason, selected, missed, attested) ==
    IF reason = "provider_failure" THEN "failed_system"
    ELSE IF reason = "integrity_failure" \/ ~attested THEN "failed_integrity"
    ELSE IF missed = "playlist" \/ (selected = 0 /\ (reason = "deadline" \/ missed = "quality"))
    THEN "needs_decision"
    ELSE IF selected = 0 THEN "no_compatible_tracks"
    ELSE IF selected < Wanted THEN "partial_ready" ELSE "exact_ready"

\* A pool that satisfied the optimizer at the head satisfies it at the end.
Conclude(explicit) ==
    /\ phase' = "done" /\ stop' = explicit
    /\ \E selected \in 0..Least(pool, Wanted), missed \in {"none", "quality", "playlist"},
           attested \in BOOLEAN :
         /\ explicit = "satisfied" => selected = Wanted /\ missed = "none"
         /\ missed = "quality" => pool > 0 /\ selected < Wanted
         /\ missed = "playlist" => pool >= Wanted
         /\ pool = 0 => attested
         /\ outcome' = StatusOf(FinalReason(explicit), selected, missed, attested)
         /\ broken' = (broken \/ ~attested)
    /\ UNCHANGED <<strategy, pending, current, outage, pool, failed, repaired, globalRounds, cost, late>>

-----------------------------------------------------------------------------
(* The head of the loop *)

AtHead == phase = "loop" /\ pending = {}

\* A budget that was reached in a wave stops the loop when the wave is
\* committed.
BudgetEnds == AtHead /\ stop = "budget" /\ Conclude("budget")

\* The deadline is looked at before every answer, and it aborts the calls.
DeadlineEnds ==
    /\ late
    /\ phase \in {"loop", "qualifying", "repairing"} /\ (AtHead => stop # "budget")
    /\ Conclude("deadline")

Open == AtHead /\ stop = "none" /\ ~late
SatisfiedEnds == Open /\ pool >= Goal /\ Conclude("satisfied")
CostEnds == Open /\ cost >= MaxCost /\ Conclude("budget")
RoundsEnd == Open /\ cost < MaxCost /\ globalRounds >= MaxRounds /\ Conclude("rounds")
InBudget == Open /\ cost < MaxCost /\ globalRounds < MaxRounds
CandidatesEnd == InBudget /\ globalRounds > 0 /\ Conclude("candidates")
ExhaustedEnds == InBudget /\ (\A s \in Strategies : ~Ready(s)) /\ Conclude("exhausted")

\* The calls of a wave are made at the same time and all awaited.
\* Mutant: they are not counted.
CallsUncounted(W) == 0
Calls(W) == Cardinality(W)
LaunchWave ==
    /\ InBudget
    /\ \E W \in SUBSET {s \in Strategies : Ready(s)} :
         /\ W # {} /\ (IsPortfolioWave(W) \/ IsRecoveryWave(W))
         /\ pending' = W
         /\ strategy' = [s \in Strategies |->
              IF s \in W THEN [strategy[s] EXCEPT !.status = "running", !.rounds = @ + Calls({s})]
              ELSE strategy[s]]
         /\ globalRounds' = globalRounds + Calls(W)
    /\ UNCHANGED <<phase, current, outage, pool, broken, failed, repaired, cost, late, stop, outcome>>

-----------------------------------------------------------------------------
(* An answer of the wave, in the order of the portfolio *)

Answers(s) == phase = "loop" /\ ~late /\ s \in pending /\ \A r \in pending : s <= r
Committed(s) == pending' = pending \ {s}

\* A local strategy has no work and no page.
LocalPage(s) ==
    /\ Answers(s) /\ Local(s)
    /\ Committed(s)
    /\ strategy' = [strategy EXCEPT ![s].status = "exhausted", ![s].zeros = @ + 1]
    /\ UNCHANGED <<phase, current, outage, pool, broken, failed, repaired, globalRounds, cost, late, stop, outcome>>

\* The reservation of the call met a budget.
DiscoverBudget(s) ==
    /\ Answers(s) /\ ~Local(s)
    /\ Committed(s)
    /\ stop' = "budget"
    /\ strategy' = [strategy EXCEPT ![s].status = "available"]
    /\ UNCHANGED <<phase, current, outage, pool, broken, failed, repaired, globalRounds, cost, late, outcome>>

\* The error names the dependencies that failed.
DiscoverFails(s) ==
    /\ Answers(s) /\ ~Local(s)
    /\ Committed(s)
    /\ \E D \in (SUBSET Needs[s]) \ {{}} : outage' = WithFailure(D, s)
    /\ \E retriable \in BOOLEAN : strategy' = [strategy EXCEPT ![s] = FailedRow(s, retriable)]
    /\ failed' = TRUE
    /\ UNCHANGED <<phase, current, pool, broken, repaired, globalRounds, cost, late, stop, outcome>>

\* The proof of a fixed container is missing or contradicts the one before.
ProofFails(s) ==
    /\ Answers(s) /\ ~Local(s)
    /\ Committed(s)
    /\ outage' = WithSuccess(Needs[s], s)
    /\ strategy' = [strategy EXCEPT ![s].status = "integrity_error"]
    /\ broken' = TRUE
    /\ UNCHANGED <<phase, current, pool, failed, repaired, globalRounds, cost, late, stop, outcome>>

Discovered(s) ==
    /\ Answers(s) /\ ~Local(s)
    /\ Committed(s)
    /\ outage' = WithSuccess(Needs[s], s)
    /\ \E units \in Units : cost' = cost + units
    /\ phase' = "qualifying" /\ current' = s
    /\ UNCHANGED <<strategy, pool, broken, failed, repaired, globalRounds, late, stop, outcome>>

-----------------------------------------------------------------------------
(* The qualification of a page *)

Awaits(p, s) == phase = p /\ current = s
BackToLoop == phase' = "loop" /\ current' = Nothing

\* A page that is qualified: new families, other progress, a conflict of
\* identities, and what its cursor says of the next page.  An error status
\* that a failed recovery has set is written over.
ClosePage(s, failures) ==
    \E new \in Yields, progress, conflict \in BOOLEAN, next \in {"page", "end", "loop"} :
      LET zeros == IF progress THEN 0 ELSE strategy[s].zeros + 1 IN
      /\ new > 0 => progress
      /\ pool' = Least(pool + new, Goal)
      /\ broken' = (broken \/ conflict \/ next = "loop")
      /\ strategy' = [strategy EXCEPT ![s] =
           [status |-> IF next = "loop" THEN "integrity_error"
                       ELSE IF next = "end" \/ strategy[s].rounds >= RoundsOf[s] \/ zeros >= ZeroLimit
                       THEN "exhausted" ELSE "available",
            rounds |-> strategy[s].rounds, zeros |-> zeros, failures |-> failures]]
      /\ BackToLoop

\* Only a qualification that asked the provider ends its outage.
Lookups(s) == outage' = outage \/ outage' = WithSuccess(Qualifies[s], s)

Qualified(s) ==
    /\ Awaits("qualifying", s)
    /\ Lookups(s)
    /\ ClosePage(s, strategy[s].failures)
    /\ UNCHANGED <<pending, failed, repaired, globalRounds, cost, late, stop, outcome>>

QualifyBudget(s) ==
    /\ Awaits("qualifying", s)
    /\ stop' = "budget"
    /\ strategy' = [strategy EXCEPT ![s].status = "available"]
    /\ BackToLoop
    /\ UNCHANGED <<pending, outage, pool, broken, failed, repaired, globalRounds, cost, late, outcome>>

QualifyFails(s) ==
    /\ Awaits("qualifying", s)
    /\ \E D \in (SUBSET Qualifies[s]) \ {{}} : outage' = WithFailure(D, s)
    /\ \E retriable \in BOOLEAN : strategy' = [strategy EXCEPT ![s] = FailedRow(s, retriable)]
    /\ failed' = TRUE
    /\ BackToLoop
    /\ UNCHANGED <<pending, pool, broken, repaired, globalRounds, cost, late, stop, outcome>>

\* One semantic recovery, claimed only while no provider has failed: what was
\* found so far is qualified again by an equivalent plan.
ClaimRepair(s) ==
    /\ Awaits("qualifying", s) /\ ~repaired /\ ~failed
    /\ Lookups(s)
    /\ repaired' = TRUE
    /\ phase' = "repairing"
    /\ UNCHANGED <<strategy, pending, current, pool, broken, failed, globalRounds, cost, late, stop, outcome>>

Repaired(s) ==
    /\ Awaits("repairing", s)
    /\ Lookups(s)
    /\ ClosePage(s, strategy[s].failures)
    /\ UNCHANGED <<pending, failed, repaired, globalRounds, cost, late, stop, outcome>>

RepairFails(s) ==
    /\ Awaits("repairing", s)
    /\ \E D \in (SUBSET Qualifies[s]) \ {{}} : outage' = WithFailure(D, s)
    /\ ClosePage(s, strategy[s].failures + 1)
    /\ failed' = TRUE
    /\ UNCHANGED <<pending, repaired, globalRounds, cost, late, stop, outcome>>

\* A budget reached here drops the answers of the wave.
RepairBudget(s) ==
    /\ Awaits("repairing", s)
    /\ stop' = "budget" /\ pending' = {}
    /\ ClosePage(s, strategy[s].failures)
    /\ UNCHANGED <<outage, failed, repaired, globalRounds, cost, late, outcome>>

\* An error of another kind, or an abort, leaves the retrieval.
Thrown == phase' = "thrown" /\ UNCHANGED <<strategy, pending, current, outage, pool, broken, failed,
                                         repaired, globalRounds, cost, late, stop, outcome>>
Escapes == (phase \in {"qualifying", "repairing"} \/ (phase = "loop" /\ pending # {})) /\ Thrown

\* The optimizer exhausts its compute budget: at the head, where it looks at a
\* full pool, or behind the loop, where it selects, however the loop ended.
OptimizerExceeds ==
    /\ AtHead /\ pool > 0
    /\ \/ stop = "budget" \/ late \/ pool >= Goal \/ cost >= MaxCost
       \/ globalRounds > 0 \/ \A s \in Strategies : ~Ready(s)
    /\ Thrown

DeadlinePasses ==
    /\ ~late /\ phase \in {"loop", "qualifying", "repairing"}
    /\ late' = TRUE
    /\ UNCHANGED <<phase, strategy, pending, current, outage, pool, broken, failed, repaired,
                   globalRounds, cost, stop, outcome>>

Proceed ==
    \/ BudgetEnds \/ DeadlineEnds \/ SatisfiedEnds \/ CostEnds \/ RoundsEnd \/ CandidatesEnd
    \/ ExhaustedEnds \/ LaunchWave
    \/ \E s \in Strategies :
         \/ LocalPage(s) \/ DiscoverBudget(s) \/ DiscoverFails(s) \/ ProofFails(s) \/ Discovered(s)
         \/ Qualified(s) \/ QualifyBudget(s) \/ QualifyFails(s)
         \/ ClaimRepair(s) \/ Repaired(s) \/ RepairFails(s) \/ RepairBudget(s)

RetrievalNext == Proceed \/ Escapes \/ OptimizerExceeds \/ DeadlinePasses

\* Every call is answered, refused or aborted.
RetrievalSpec == RetrievalInit /\ [][RetrievalNext]_retrievalVars /\ WF_retrievalVars(Proceed)

-----------------------------------------------------------------------------
(* Properties *)

RetrievalTypeOK ==
    /\ phase \in {"loop", "qualifying", "repairing", "done", "thrown"}
    /\ strategy \in [Strategies -> StrategyRows]
    /\ pending \subseteq Strategies /\ current \in Strategies \cup {Nothing}
    /\ outage \in [Dependencies -> SUBSET Strategies]
    /\ pool \in 0..Goal /\ globalRounds \in 0..MaxRounds /\ cost \in Nat
    /\ {broken, failed, repaired, late} \subseteq BOOLEAN
    /\ stop \in StopReasons /\ outcome \in Outcomes

\* A strategy that was given up for its provider, in whichever of its calls
\* and whatever the others of the same provider met since, keeps the outcome
\* from being a shortage of tracks or a question to the visitor.
GivenUp == {s \in Strategies : strategy[s].status = "provider_error"}
OutageNotScarcity ==
    outcome \in {"no_compatible_tracks", "partial_ready", "needs_decision"} => GivenUp = {}

\* What failed its integrity in a page, a cursor, a proof or the selection is
\* never publishable, also when the pool was full or a provider was lost.
IntegrityQuarantined ==
    outcome # "none" /\ (broken \/ \E s \in Strategies : strategy[s].status = "integrity_error")
        => outcome \in {"failed_integrity", "failed_system"}

\* The allowance of cost units is passed at most by what the calls of one wave
\* cost beyond one unit each, although they are started together and their
\* costs are known only afterwards.
SpendBounded == cost <= MaxCost + MaxConcurrent * (Max(Units \cup {1}) - 1)

\* Retrieval ends, also when every page makes some progress and none fills
\* the pool.
RetrievalEnds == <>(phase \in {"done", "thrown"})
=============================================================================
