SPECIFICATION Spec
CONSTANTS
    NodeIds = {1}
    Topics = {ta}
    Clients = {c1}
    Sizes = {1}
    Ttls = {1, 2}
    MaxMsgs = 1
    MaxBytes = 0
    FlushSecs = 5
    MaxIds = 2
    MaxTime = 2
    MaxFails = 1
    MaxStarts = 2
    ta = ta
    c1 = c1
    Filters <- MCFilters
INVARIANT TypeOK
INVARIANT FreshIds
INVARIANT WriteBackCoherent
INVARIANT RemovalsScheduled
INVARIANT AtMostOnceGet
INVARIANT StopKeepsAbsorbed
PROPERTY DurableMarks
PROPERTY ImplementsLog
CHECK_DEADLOCK FALSE
