SPECIFICATION Spec
CONSTANTS
    QueueSize = 2
    MaxSpeed = 0
    Speeds = {}
    MaxRest = 3
    Length = 1
PROPERTY CleanupExitSparesOthers
CHECK_DEADLOCK FALSE
