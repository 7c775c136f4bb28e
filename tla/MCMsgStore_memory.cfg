SPECIFICATION Spec
CONSTANTS
    NodeIds = {1}
    Topics = {ta, tb}
    Clients = {c1}
    Sizes = {1, 2}
    Ttls = {1, 2}
    MaxMsgs = 2
    MaxBytes = 3
    FlushSecs = 0
    MaxIds = 3
    MaxTime = 2
    MaxFails = 0
    MaxStarts = 1
    ta = ta
    tb = tb
    c1 = c1
    Filters <- MCFilters
SYMMETRY Symmetry
INVARIANT IndexConsistent
INVARIANT BytesExact
PROPERTY CapsEnforced
PROPERTY NoEarlyDrop
CHECK_DEADLOCK FALSE
