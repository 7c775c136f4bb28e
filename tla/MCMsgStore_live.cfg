SPECIFICATION FairSpec
CONSTANTS
    NodeIds = {1}
    Topics = {ta}
    Clients = {}
    Sizes = {1}
    Ttls = {1, 2}
    MaxMsgs = 0
    MaxBytes = 0
    FlushSecs = 5
    MaxIds = 2
    MaxTime = 2
    MaxFails = 0
    MaxStarts = 1
    ta = ta
    Filters <- MCFilters
PROPERTY EventuallyAbsorbed
PROPERTY ExpiryCleanup
PROPERTY ShutdownCompletes
CHECK_DEADLOCK FALSE
