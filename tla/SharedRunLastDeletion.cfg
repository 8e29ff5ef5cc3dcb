\* Two visitors and two captures.
CONSTANTS
    Visitors = {1, 2}  Captors = {11, 12}  Ids = {1, 2, 3}
SPECIFICATION SharingSpec
CHECK_DEADLOCK FALSE
INVARIANT
    LastDeletionRemovesRun
