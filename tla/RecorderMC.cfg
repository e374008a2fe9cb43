SPECIFICATION RecorderFairSpec
CONSTANTS
    c1 = c1
    c2 = c2
    Readers <- MCReaders
    Steady <- MCReaders
    None = None
    QueueLimit = 1
    HighWater = 0
    MaxSeq = 3
    MaxLives = 2
    MaxConnects = 3
    MaxRuns = 2
INVARIANTS
    RecorderTypeOK
    RowsAreTheStream
    OutagesAreRows
PROPERTIES
    EventuallyRecorded
    AbsenceIsSaid
