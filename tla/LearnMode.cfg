SPECIFICATION FairSpec
CONSTANTS
  Throws = 1
  Estimate = 1
  Capacity = 2
  Counts = {0, 2}
  MinSuccess = 95
  Profiles = {p1}
  Own = Own
  GateEnabled = TRUE
  NotANumber = NotANumber
  QueueLength = 1
INVARIANTS
  TypeOK
  MotorsOnlyInThrows
  TunerHeldOff
  CupNeverOverflows
  ReportedIsMeasured
PROPERTIES
  ResetEndsTheRun
