\* One failure: a pause, a crash or a lost lease.
CONSTANTS
    Count = 2  Batch = 1  MaxReplacements = 1
    MaxExecs = 2  MaxLists = 2  MaxTroubles = 1  MaxKeys = 2
    SettledTakeover = TRUE
SPECIFICATION Spec
CHECK_DEADLOCK FALSE
INVARIANTS ResumesFromAnywhere
