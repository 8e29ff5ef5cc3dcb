\* Two operations of one run and two executions; three requests of one key in
\* two processes; four strategies, two of them behind each provider; two
\* writers and a bucket of two tokens.
CONSTANTS
    k1 = k1  k2 = k2  r1 = r1
    Keys = {k1, k2}  Runs = {r1}  KeyRun <- OneRun  Callers = {c1, c2}
    CallLimit = 2  Costs = {1, 3}  Budget = 3  Approvals = {5, 6}  Ceiling = 5
    MaxLapses = 2  MaxBreaks = 2  MaxMonths = 1
    p1 = p1  p2 = p2  q1 = q1  q2 = q2  q3 = q3
    Requests = {q1, q2, q3}  Processes = {p1, p2}  ProcessOf <- TwoProcesses
    LeaseTime = 2  WaitTime = 2  MaxFaults = 1  MaxDeaths = 1
    Strategies <- Portfolio  Tier <- PortfolioTier  RoundsOf <- PortfolioRounds
    Dependencies = {"apple", "hosted"}  Needs <- PortfolioNeeds  Qualifies <- PortfolioQualifies
    ZeroLimit = 2  MaxConcurrent = 2  MaxRounds = 4  MaxCost = 3  MaxFailures = 2
    Wanted = 1  Goal = 2  Seeds = {1}  Approved = {{}, {2, 3}}  Yields = {0, 1}  Units = {0, 2}
    Writers = {w1, w2}  Capacity = 4  Cost = 2  LockWait = 2  Offsets = {0, 1}
    MaxClock = 4  MaxGained = 2  MaxLost = 1
SPECIFICATION Spec
CHECK_DEADLOCK FALSE
INVARIANTS
    ServicesTypeOK
    CountersMatch EvidenceAccounted BudgetHeld
    SingleFill
    OutageNotScarcity SpendBounded
    RateHeld
PROPERTIES
    BusyWhileFilled LeaseKept RetrievalSettles
