\* One V3 job on three attempts, two workers, two executions at once: what
\* happens when leases expire, workers crash or stop and a worker leases the
\* job again after another one had it.  Undisturbed from a first execution that
\* was overtaken; with a visitor or owner request or a failing call of the
\* repository on the last two attempts, and with both on the last one.
CONSTANTS
    j1 = j1   j2 = j2   j3 = j3   j4 = j4   r1 = r1   deep = deep   manifest = manifest
    NoLane = NoLane   NoWorker = NoWorker   NoExec = NoExec
    Jobs = {j1}   Runs = {r1}   Workers = {w1, w2}   Execs = {e1, e2}
    Lanes = {deep}
    RunOf <- ResearchRun   KindOf <- Research   LaneOf <- Deep
    Canonical = {j1}
    MaxAttempts = 3   Capacity = 1   Concurrency = 2   MaxEpoch = 3
    MaxPauses = 0   MaxRequests = 1   MaxFaults = 1
SPECIFICATION FencingSpec
SYMMETRY Symmetry
CHECK_DEADLOCK FALSE
INVARIANTS TypeOK AttemptAuthority NoStrandedRun
PROPERTIES StaleHarmless CompletionFinal
