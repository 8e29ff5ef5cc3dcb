\* A worker leases its own expired job again, in the same generation.
CONSTANTS
    j1 = j1   j2 = j2   j3 = j3   j4 = j4   r1 = r1   deep = deep   manifest = manifest
    NoLane = NoLane   NoWorker = NoWorker   NoExec = NoExec
    Jobs = {j1}   Runs = {r1}   Workers = {w1, w2}   Execs = {e1, e2}
    Lanes = {deep}
    RunOf <- ResearchRun   KindOf <- Research   LaneOf <- Deep
    Canonical = {j1}
    MaxAttempts = 2   Capacity = 1   Concurrency = 2   MaxEpoch = 2
    MaxPauses = 0   MaxRequests = 0   MaxFaults = 0
SPECIFICATION Spec
SYMMETRY Symmetry
CHECK_DEADLOCK FALSE
INVARIANTS SoleAuthority
