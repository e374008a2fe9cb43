SPECIFICATION Spec
CONSTANTS
    c1 = c1
    c2 = c2
    warm = warm
    cold = cold
    None = None
    Commands <- MCCommands
    Values <- MCValues
    Dialects = {"solix", "prime"}
    MaxConnections = 2
    MaxInbox = 1
PROPERTIES
    AcceptedIsItsOwn
CHECK_DEADLOCK FALSE
