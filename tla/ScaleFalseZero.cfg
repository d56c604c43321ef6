SPECIFICATION Spec
CONSTANTS
    Drivers = {"sartorius"}
    Chosen = {"simulated"}
    Values <- MCValues
    Noise <- MCNoise
    MaxFaults = 3
    Targets = {0, 3}
    Flows = {0, 1, 2}
    Hold = 2
    MaxPowder = 4
PROPERTY NoFalseReading
CHECK_DEADLOCK FALSE
