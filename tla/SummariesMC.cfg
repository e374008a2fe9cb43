SPECIFICATION Spec
CONSTANTS
    None = None
    Lengths = {1, 7, 80}
    Starts = {0, 55}
    MaxStretches = 3
CHECK_DEADLOCK FALSE
INVARIANTS
    ChartsAreDrawn
    FoldingLosesNothing
    OutlookHolds
