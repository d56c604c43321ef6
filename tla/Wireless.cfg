SPECIFICATION FairSpec
CONSTANTS
    Timeouts = {0, 2}
    MaxClock = 3
PROPERTY LedShowsState
CHECK_DEADLOCK FALSE
