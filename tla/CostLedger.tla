----------------------------- MODULE CostLedger -----------------------------
(***************************************************************************)
(* The ledger of provider costs.  A paid call reserves its maximal cost    *)
(* against the month and its run, calls the provider, and reconciles the   *)
(* reservation with what the answer cost, or releases it.  Reservations    *)
(* are keyed by run and operation: the execution that takes over from a    *)
(* crashed or overtaken one meets the reservation of its predecessor.      *)
(* Every transaction but a release holds the budget's advisory lock; a     *)
(* release locks its row.  Amounts are units of money.                     *)
(***************************************************************************)
EXTENDS Integers, FiniteSets, FiniteSetsExt

CONSTANTS
    Keys,         \* idempotency keys: one per run and operation
    Runs,         \* the runs
    KeyRun,       \* the run of a key
    Callers,      \* executions that may make a paid call
    CallLimit,    \* what a call reserves: its maximal cost by the price list
    Costs,        \* what an answer may cost
    Budget,       \* approved budget of a new run
    Approvals,    \* budgets an owner may approve
    Ceiling,      \* MONTHLY_COST_LIMIT_USD
    MaxLapses,    \* bound: reservations that outlive their 30 minutes
    MaxBreaks,    \* bound: calls that fail or crash
    MaxMonths     \* bound: new months

ASSUME LedgerAssumption ==
    /\ IsFiniteSet(Keys) /\ KeyRun \in [Keys -> Runs]
    /\ CallLimit \in Nat /\ Costs \subseteq Nat /\ Budget \in Nat
    /\ Approvals \subseteq Nat /\ Ceiling \in Nat
    /\ MaxLapses \in Nat /\ MaxBreaks \in Nat /\ MaxMonths \in Nat

VARIABLES
    account,       \* cost columns and status of every run
    reservation,   \* cost_reservations by key
    ledger,        \* rows of cost_ledger by key and their sum
    month,         \* what the ledger holds for this month
    paid,          \* the call of every execution
    evidence,      \* keys whose answers were handed on
    lapses, breaks, months

ledgerVars == <<account, reservation, ledger, month, paid, evidence, lapses, breaks, months>>

AccountRows == [status : {"open", "awaiting_budget", "expired", "cancelled"},
                actual : Nat, reserved : Nat, approved : Nat]
ReservationRows == [status : {"none", "reserved", "released", "reconciled", "reconciled_overrun"},
                    amount : Nat, actual : Nat, lapsed : BOOLEAN]
NoKey == "no key"
CallRows == [pc : {"idle", "calling", "answered", "failed"}, key : Keys \cup {NoKey}, cost : Nat]
NoCall == [pc |-> "idle", key |-> NoKey, cost |-> 0]

LedgerInit ==
    /\ account = [r \in Runs |-> [status |-> "open", actual |-> 0, reserved |-> 0, approved |-> Budget]]
    /\ reservation = [k \in Keys |-> [status |-> "none", amount |-> 0, actual |-> 0, lapsed |-> FALSE]]
    /\ ledger = [k \in Keys |-> [rows |-> 0, sum |-> 0]]
    /\ month = 0 /\ paid = [e \in Callers |-> NoCall] /\ evidence = {}
    /\ lapses = 0 /\ breaks = 0 /\ months = 0

-----------------------------------------------------------------------------
(* Helpers *)

\* GREATEST(0,a-b)
Less(a, b) == IF a >= b THEN a - b ELSE 0

KeysOf(r) == {k \in Keys : KeyRun[k] = r}
Held(K) == {k \in K : reservation[k].status = "reserved"}
Amount(K) == MapThenSumSet(LAMBDA k : reservation[k].amount, K)

\* Reservations whose 30 minutes are over.
Lapsed == {k \in Held(Keys) : reservation[k].lapsed}

\* The reservation already there for a key is used again unless it is, or is
\* just now, released.
Reusable(k) == reservation[k].status \notin {"none", "released"} /\ k \notin Lapsed

\* The columns of a run once the lapsed reservations are released.
\* Mutant: only the rows are released.
HeldByRunStale(r) == account[r].reserved
HeldByRun(r) == Less(account[r].reserved, Amount(Lapsed \cap KeysOf(r)))
HeldThisMonth == Amount(Held(Keys) \ Lapsed)

-----------------------------------------------------------------------------
(* reserveProviderCost *)

\* Every reservation first releases those that have lapsed, of all runs.
Swept(k) == IF k \in Lapsed THEN [reservation[k] EXCEPT !.status = "released"] ELSE reservation[k]
SweptAccount(r) == [account[r] EXCEPT !.reserved = HeldByRun(r)]

Pays(e, k) == paid' = [paid EXCEPT ![e] = [pc |-> "calling", key |-> k, cost |-> 0]]

Reuse(e, k) ==
    /\ paid[e].pc = "idle" /\ Reusable(k)
    /\ reservation' = [i \in Keys |-> Swept(i)]
    /\ account' = [r \in Runs |-> SweptAccount(r)]
    /\ Pays(e, k)
    /\ UNCHANGED <<ledger, month, evidence, lapses, breaks, months>>

\* The month's ceiling and the run's budget have room for the maximal cost.
\* Mutant: what is reserved by other calls of the run is not counted.
HasRoomActual(r) == account[r].actual + CallLimit <= account[r].approved
HasRoom(r) == account[r].actual + HeldByRun(r) + CallLimit <= account[r].approved
MonthHasRoom == month + HeldThisMonth + CallLimit <= Ceiling

Reserve(e, k) ==
    /\ paid[e].pc = "idle" /\ ~Reusable(k)
    /\ MonthHasRoom /\ HasRoom(KeyRun[k])
    /\ reservation' = [i \in Keys |->
         IF i = k THEN [status |-> "reserved", amount |-> CallLimit, actual |-> 0, lapsed |-> FALSE]
         ELSE Swept(i)]
    /\ account' = [r \in Runs |->
         IF r = KeyRun[k] THEN [SweptAccount(r) EXCEPT !.reserved = @ + CallLimit]
         ELSE SweptAccount(r)]
    /\ Pays(e, k)
    /\ UNCHANGED <<ledger, month, evidence, lapses, breaks, months>>

-----------------------------------------------------------------------------
(* The call and reconcileProviderCost *)

Answer(e) ==
    /\ paid[e].pc = "calling"
    /\ \E cost \in Costs : paid' = [paid EXCEPT ![e].pc = "answered", ![e].cost = cost]
    /\ UNCHANGED <<account, reservation, ledger, month, evidence, lapses, breaks, months>>

\* The answer's cost does not fit the month or the run, with the other calls'
\* reservations as they stand, lapsed or not.
RunAfter(k, cost) ==
    LET r == KeyRun[k] IN account[r].actual + Less(account[r].reserved, reservation[k].amount) + cost
MonthAfter(k, cost) == month + Less(Amount(Held(Keys)), reservation[k].amount) + cost
Overruns(k, cost) == RunAfter(k, cost) > account[KeyRun[k]].approved \/ MonthAfter(k, cost) > Ceiling

\* The first reconciliation of a held reservation charges its run, whatever
\* the run's status; an overrun sets the run to awaiting_budget and is raised.
\* Mutant: the actual cost is taken off the column in place of the reserved one.
ChargedByCost(r, k, cost) ==
    [account[r] EXCEPT !.actual = @ + cost, !.reserved = @ - cost,
                       !.status = IF Overruns(k, cost) THEN "awaiting_budget" ELSE @]
Charged(r, k, cost) ==
    [account[r] EXCEPT !.actual = @ + cost, !.reserved = Less(@, reservation[k].amount),
                       !.status = IF Overruns(k, cost) THEN "awaiting_budget" ELSE @]

Reconcile(e) ==
    LET k == paid[e].key  cost == paid[e].cost  r == KeyRun[k] IN
    /\ paid[e].pc = "answered" /\ reservation[k].status = "reserved"
    /\ reservation' = [reservation EXCEPT
         ![k] = [status |-> IF Overruns(k, cost) THEN "reconciled_overrun" ELSE "reconciled",
                 amount |-> reservation[k].amount, actual |-> cost, lapsed |-> FALSE]]
    /\ ledger' = [ledger EXCEPT ![k] = [rows |-> ledger[k].rows + 1, sum |-> ledger[k].sum + cost]]
    /\ month' = month + cost
    /\ account' = [account EXCEPT ![r] = Charged(r, k, cost)]
    /\ evidence' = IF Overruns(k, cost) THEN evidence ELSE evidence \cup {k}
    /\ paid' = [paid EXCEPT ![e] = NoCall]
    /\ UNCHANGED <<lapses, breaks, months>>

\* A reservation that is reconciled already: the answer is used, and what this
\* call cost is the provider's answer to the same idempotency key.
\* Mutant: a released reservation is taken for a reconciled one.
SettledOrReleased == {"reconciled", "reconciled_overrun", "released"}
SettledStates == {"reconciled", "reconciled_overrun"}
ReconcileAgain(e) ==
    /\ paid[e].pc = "answered" /\ reservation[paid[e].key].status \in SettledStates
    /\ evidence' = evidence \cup {paid[e].key}
    /\ paid' = [paid EXCEPT ![e] = NoCall]
    /\ UNCHANGED <<account, reservation, ledger, month, lapses, breaks, months>>

\* A reservation that was released meanwhile: the answer is refused with its
\* cost.
ReconcileRefused(e) ==
    /\ paid[e].pc = "answered" /\ reservation[paid[e].key].status = "released"
    /\ paid' = [paid EXCEPT ![e] = NoCall]
    /\ UNCHANGED <<account, reservation, ledger, month, evidence, lapses, breaks, months>>

\* The call fails or is aborted, and releaseProviderCost follows.
Fail(e) ==
    /\ paid[e].pc = "calling" /\ breaks < MaxBreaks
    /\ paid' = [paid EXCEPT ![e].pc = "failed"]
    /\ breaks' = breaks + 1
    /\ UNCHANGED <<account, reservation, ledger, month, evidence, lapses, months>>

\* Only a reservation that is held is released: it may have lapsed and been
\* swept, or another execution with the same key may have reconciled it.
Releasable(k) == reservation[k].status = "reserved"
Release(e) ==
    LET k == paid[e].key  r == KeyRun[k] IN
    /\ paid[e].pc = "failed"
    /\ IF Releasable(k)
       THEN /\ reservation' = [reservation EXCEPT ![k].status = "released"]
            /\ account' = [account EXCEPT ![r].reserved = Less(@, reservation[k].amount)]
       ELSE UNCHANGED <<reservation, account>>
    /\ paid' = [paid EXCEPT ![e] = NoCall]
    /\ UNCHANGED <<ledger, month, evidence, lapses, breaks, months>>

\* The process dies; its reservation stays.
Crash(e) ==
    /\ paid[e].pc # "idle" /\ breaks < MaxBreaks
    /\ paid' = [paid EXCEPT ![e] = NoCall]
    /\ breaks' = breaks + 1
    /\ UNCHANGED <<account, reservation, ledger, month, evidence, lapses, months>>

-----------------------------------------------------------------------------
(* The owner, the visitor and time *)

\* approveRunBudget
Approve(r) ==
    /\ account[r].status = "awaiting_budget"
    /\ \E budget \in Approvals :
         /\ budget > account[r].actual + account[r].reserved
         /\ account' = [account EXCEPT ![r].status = "open", ![r].approved = budget]
    /\ UNCHANGED <<reservation, ledger, month, paid, evidence, lapses, breaks, months>>

\* listAwaitingBudgets: seven days without an approval.
ApprovalExpires(r) ==
    /\ account[r].status = "awaiting_budget"
    /\ account' = [account EXCEPT ![r].status = "expired"]
    /\ UNCHANGED <<reservation, ledger, month, paid, evidence, lapses, breaks, months>>

\* A cancelled run's calls go on; its reservations stay.
CancelAccount(r) ==
    /\ account[r].status \in {"open", "awaiting_budget"}
    /\ account' = [account EXCEPT ![r].status = "cancelled"]
    /\ UNCHANGED <<reservation, ledger, month, paid, evidence, lapses, breaks, months>>

Lapse(k) ==
    /\ reservation[k].status = "reserved" /\ ~reservation[k].lapsed /\ lapses < MaxLapses
    /\ reservation' = [reservation EXCEPT ![k].lapsed = TRUE]
    /\ lapses' = lapses + 1
    /\ UNCHANGED <<account, ledger, month, paid, evidence, breaks, months>>

NewMonth ==
    /\ months < MaxMonths
    /\ months' = months + 1 /\ month' = 0
    /\ UNCHANGED <<account, reservation, ledger, paid, evidence, lapses, breaks>>

LedgerNext ==
    \/ \E e \in Callers, k \in Keys : Reuse(e, k) \/ Reserve(e, k)
    \/ \E e \in Callers : \/ Answer(e) \/ Reconcile(e) \/ ReconcileAgain(e) \/ ReconcileRefused(e)
                          \/ Fail(e) \/ Release(e) \/ Crash(e)
    \/ \E r \in Runs : Approve(r) \/ ApprovalExpires(r) \/ CancelAccount(r)
    \/ \E k \in Keys : Lapse(k)
    \/ NewMonth

LedgerSpec == LedgerInit /\ [][LedgerNext]_ledgerVars

-----------------------------------------------------------------------------
(* Properties *)

LedgerTypeOK ==
    /\ account \in [Runs -> AccountRows]
    /\ reservation \in [Keys -> ReservationRows]
    /\ ledger \in [Keys -> [rows : Nat, sum : Nat]]
    /\ month \in Nat /\ lapses \in Nat /\ breaks \in Nat /\ months \in Nat
    /\ paid \in [Callers -> CallRows]
    /\ evidence \subseteq Keys

\* The cost columns of a run are what its rows add up to: neither a lapse nor
\* a late release or reconciliation takes a reservation off twice or leaves
\* one behind, which the clamp at zero would hide.
CountersMatch ==
    \A r \in Runs :
        /\ account[r].reserved = Amount(Held(KeysOf(r)))
        /\ account[r].actual = MapThenSumSet(LAMBDA k : ledger[k].sum, KeysOf(r))

\* No answer is handed on whose cost is not in the ledger exactly once, also
\* when two executions share its key.
EvidenceAccounted == \A k \in evidence : ledger[k].rows = 1 /\ ledger[k].sum = reservation[k].actual

\* A run's budget and the month's ceiling are exceeded at most by what answers
\* cost beyond what was reserved for them.
Excess(K) == MapThenSumSet(LAMBDA k : Less(reservation[k].actual, reservation[k].amount),
                           {k \in K : reservation[k].status = "reconciled_overrun"})
BudgetHeld ==
    /\ \A r \in Runs : account[r].actual + account[r].reserved <= account[r].approved + Excess(KeysOf(r))
    /\ month + Amount(Held(Keys)) <= Ceiling + Excess(Keys)
=============================================================================
