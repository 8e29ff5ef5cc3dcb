\* Two slots and one resume of the circuit; one ordinary and two gap passes of
\* two segments each, with one durable retry.
CONSTANTS
    Slots = 2   Delay <- TwoSlots   RetryAfters = {2, 4}   Window = 3   ComputeDelay = 1
    MaxAttempts = 5   LeaseTime = 1   MaxTime = 10   LastOutage = 4   MaxWait = 1   MaxResumes = 1   MaxLosses = 1
    Phases = 1   GapLimit = 2   SegmentLimit = 2   RetrySlots = 1
    PassAttempts = 2   ResumeAttempts = 2   MaxInterruptions = 2
SPECIFICATION Spec
CHECK_DEADLOCK FALSE
INVARIANTS
    OutagesTypeOK
    OutageNotFailed ResumableDecision StageKeepsWork
    NoNewExact OutageHoldsRun
PROPERTIES
    WindowAnchored RetryAfterKept VerdictKept
    OutageSettles ResearchSettles
