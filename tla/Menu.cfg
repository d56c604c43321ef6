SPECIFICATION FairSpec
CONSTANTS
    QueueSize = 2
    MaxSpeed = 1
    Speeds = {1}
    MaxRest = 1
    Length = 2
INVARIANTS MotorsRestAtMenu CommandsAreWhole
PROPERTY ResetLeavesMode
CHECK_DEADLOCK FALSE
