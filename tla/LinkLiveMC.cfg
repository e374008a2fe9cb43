SPECIFICATION FairSpec
CONSTANTS
    c1 = c1
    c2 = c2
    warm = warm
    cold = cold
    None = None
    Commands <- MCCommands
    Values = {warm}
    Dialects = {"solix"}
    MaxConnections = 1
    MaxInbox = 1
PROPERTIES
    EventuallyEnded
    DeadLinkCloses
    StopEnds
CHECK_DEADLOCK FALSE
