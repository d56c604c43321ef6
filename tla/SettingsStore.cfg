SPECIFICATION Spec
CONSTANTS
    Pages <- MCPages
    Settings = {"set", "bad"}
    Factory = {"new", "legacy"}
    Controls <- MCControls
    MaxRequests = 2
    MaxFaults = 1
INVARIANTS RamIsWhole SaveSurvives
CHECK_DEADLOCK FALSE
