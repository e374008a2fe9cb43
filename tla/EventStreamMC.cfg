SPECIFICATION FairSpec
CONSTANTS
    r1 = r1
    r2 = r2
    Readers <- MCReaders
    Steady <- MCSteady
    QueueLimit = 2
    HighWater = 1
    MaxSeq = 5
INVARIANTS
    TypeOK
    Accounting
PROPERTIES
    FeedPromise
    EventuallyTold
    HangupNoticed
