CONSTANTS
    Tools = {"perf", "resources"}
    SubCounts <- MCSubCounts
    ResSubs <- MCResSubs
    MessageCount = 3
    Devices = 2
    Publishers = 2
    MaxAttempts = 2
    MaxFaults = 1
SPECIFICATION Spec
INVARIANT CleanEnd
INVARIANT FailureExplained
INVARIANT RoundComplete
INVARIANT StallExplained
INVARIANT NoOverlap
PROPERTY Ends
CHECK_DEADLOCK FALSE
