SPECIFICATION Spec
CONSTANTS
    Pages <- MCPages
    Settings = {"set", "bad"}
    Factory = {"new"}
    Controls <- MCControls
    MaxRequests = 2
    MaxFaults = 0
PROPERTY SavedIsReadable
CHECK_DEADLOCK FALSE
