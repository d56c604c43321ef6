SPECIFICATION Spec
CONSTANTS
  Throws = 3
  Estimate = 1
  Capacity = 3
  Counts = {0, 2}
  MinSuccess = 95
  Profiles = {p1}
  Own = Own
  GateEnabled = TRUE
  NotANumber = NotANumber
  QueueLength = 1
INVARIANT
  CupHoldsWhateverIsRead
