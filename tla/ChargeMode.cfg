SPECIFICATION FairSpec
CONSTANTS
  Targets = {4}
  RestTargets = {NotANumber}
  Handoffs <- SomeHandoffs
  Trims <- SomeTrims
  Bracket = 1
  MaxWeight = 5
  RestStates = {0, 1, 3}
  QueueLength = 2
  NotANumber = NotANumber
INVARIANTS
  MotorsOnlyWhileThrowing
  CoarseStaysOff
  LoggedOnce
PROPERTIES
  BulkCarriesHalf
  BackoffEnds
  SettleEnds
  ScaleLossStops
  ResetIsHonoured
