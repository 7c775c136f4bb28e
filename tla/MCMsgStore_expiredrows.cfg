SPECIFICATION FairSpec
CONSTANTS
    NodeIds = {1}
    Topics = {ta}
    Clients = {c1}
    Sizes = {1}
    Ttls = {1, 2}
    MaxMsgs = 2
    MaxBytes = 3
    FlushSecs = 5
    MaxIds = 1
    MaxTime = 2
    MaxFails = 0
    MaxStarts = 2
    ta = ta
    c1 = c1
    Filters <- MCFilters
PROPERTY ExpiryCleanup
CHECK_DEADLOCK FALSE
