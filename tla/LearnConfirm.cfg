SPECIFICATION Spec
CONSTANTS
  Throws = 1
  Estimate = 1
  Capacity = 3
  Counts = {0, 2}
  MinSuccess = 95
  Profiles = {p1, p2}
  Own = Own
  GateEnabled = TRUE
  NotANumber = NotANumber
  QueueLength = 1
PROPERTIES
  PassRateDescribesTheFit
