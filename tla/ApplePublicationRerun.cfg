\* One failure: a crash after the commit.
CONSTANTS
    Count = 2  Batch = 1  MaxReplacements = 1
    MaxExecs = 2  MaxLists = 2  MaxTroubles = 1  MaxKeys = 2
    SettledTakeover = TRUE
SPECIFICATION Spec
CHECK_DEADLOCK FALSE
INVARIANTS CompletionKept
