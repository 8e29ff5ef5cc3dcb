\* Two deep and two fast legacy jobs for two workers: the deep lane holds one
\* lease, the queue holds two, and each rule is reached before the other. A call
\* that fails leaves a lease behind without its execution.
CONSTANTS
    j1 = j1   j2 = j2   j3 = j3   j4 = j4   r1 = r1   deep = deep   manifest = manifest
    NoLane = NoLane   NoWorker = NoWorker   NoExec = NoExec
    Jobs = {j1, j2, j3, j4}   Runs = {r1}   Workers = {w1, w2}   Execs = {e1, e2}
    Lanes = {deep}
    RunOf <- ResearchRun   KindOf <- Research   LaneOf <- DeepAndFast
    Canonical = {}
    MaxAttempts = 1   Capacity = 2   Concurrency = 1   MaxEpoch = 2
    MaxPauses = 0   MaxRequests = 0   MaxFaults = 1
SPECIFICATION Spec
SYMMETRY LaneSymmetry
CHECK_DEADLOCK FALSE
INVARIANTS LaneExclusive
