SPECIFICATION Spec
CONSTANTS
    short = short
    long = long
    Keys = {short, long}
    Fragments <- FragmentsMC
    Filling = {short}
    MaxMessages = 2
    MaxLost = 3
    MaxTwice = 1
INVARIANTS
    JoinedIsOneMessage
    EveryNotificationKept
    Understood
CHECK_DEADLOCK FALSE
