SPECIFICATION FairSpec
CONSTANTS
    Requests = {r1, r2}
    Fallback = Fallback
    None = None
    Period = 2
    Timeout = 2
    MaxRotations = 2
    MaxFails = 1
    r1 = r1
    r2 = r2
INVARIANT TypeOK
INVARIANT RejectionExplained
PROPERTY KnownKept
PROPERTY SecretAccepted
