\* Publication: two batches, one replacement and two failures, with as many
\* generations, playlists and keys as two failures can use up.
\* Sharing: two visitors and two captures.
CONSTANTS
    Count = 2  Batch = 1  MaxReplacements = 1
    MaxExecs = 5  MaxLists = 4  MaxTroubles = 2  MaxKeys = 4
    SettledTakeover = TRUE
    Visitors = {1, 2}  Captors = {11, 12}  Ids = {1, 2, 3}
SPECIFICATION RunSpec
INVARIANTS RunTypeOK PublishedExact SubmittedIsApplied PermitLocks DeletedNotReported OneReport
PROPERTIES PublishedRunEnds ImplementsExact SuppressionKept FailureReported NothingLeft
