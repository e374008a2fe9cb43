SPECIFICATION SpecMC
CONSTANTS
    Schemas <- SchemasMC
    MaxRows = 2
    MaxAge = 1
    MaxRuns = 1
    MaxFaults = 1
CHECK_DEADLOCK FALSE
INVARIANTS
    QuietMeansFine
    NothingHidden
PROPERTIES
    EventuallyAnnounced
    FailureSaid
