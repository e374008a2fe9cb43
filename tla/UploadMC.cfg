SPECIFICATION FairSpec
CONSTANTS
    u1 = u1
    u2 = u2
    Uploaders = {u1}
    FileOrder <- MCFileOrder
    MaxDay = 2
    MaxChunk = 1
    KeepDays = 1
    MaxLines = 3
    MaxFaults = 2
INVARIANTS
    TypeOK
    NoGapNoDuplicate
    CacheNeverAhead
PROPERTIES
    DeletedWasConfirmed
    EventuallyHeld
