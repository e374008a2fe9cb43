SPECIFICATION FairSpec
CONSTANTS
    None = None
    MaxAttempts = 2
    MaxMoves = 4
    MaxFaults = 2
INVARIANTS
    TypeOK
    WrittenOnce
    LatestWins
PROPERTIES
    GivenUpInFull
    Settles
