\* Three failures: a crash between the two transactions that abandon a playlist,
\* and an authorization that has run out when the job is leased again.
CONSTANTS
    Count = 2  Batch = 1  MaxReplacements = 1
    MaxExecs = 3  MaxLists = 3  MaxTroubles = 3  MaxKeys = 2
    SettledTakeover = TRUE
SPECIFICATION Spec
CHECK_DEADLOCK FALSE
INVARIANTS OrphanNeverPublished
