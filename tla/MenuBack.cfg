SPECIFICATION Spec
CONSTANTS
    QueueSize = 2
    MaxSpeed = 1
    Speeds = {1}
    MaxRest = 2
    Length = 2

PROPERTY BackReturns
CHECK_DEADLOCK FALSE
