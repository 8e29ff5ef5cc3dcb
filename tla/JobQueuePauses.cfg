\* One V3 publication job on one attempt, one execution at a time: an owner pause
\* or a deferral for Apple authorization, one request (cancel, delete, publish
\* again), the crash or stop of a worker. No symmetry: the property is temporal.
CONSTANTS
    j1 = j1   j2 = j2   j3 = j3   j4 = j4   r1 = r1   deep = deep   manifest = manifest
    NoLane = NoLane   NoWorker = NoWorker   NoExec = NoExec
    Jobs = {j1}   Runs = {r1}   Workers = {w1, w2}   Execs = {e1}
    Lanes = {manifest}
    RunOf <- ResearchRun   KindOf <- Publication   LaneOf <- OneManifest
    Canonical = {j1}
    MaxAttempts = 1   Capacity = 1   Concurrency = 1   MaxEpoch = 3
    MaxPauses = 1   MaxRequests = 1   MaxFaults = 0
SPECIFICATION Spec
CHECK_DEADLOCK FALSE
PROPERTIES JobsSettle
