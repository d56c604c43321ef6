SPECIFICATION Spec
CONSTANTS
    Drivers = {"and", "steinberg", "gng", "ussolid", "jm", "creedmoor", "radwag", "sartorius", "generic", "simulated"}
    Chosen = {"simulated"}
    Values <- MCValues
    Noise <- MCNoise
    MaxFaults = 3
    Targets = {0, 3}
    Flows = {0, 1, 2}
    Hold = 2
    MaxPowder = 4
PROPERTY WholeFrameIsRead
CHECK_DEADLOCK FALSE
