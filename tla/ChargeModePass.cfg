SPECIFICATION Spec
CONSTANTS
  Targets = {0, 4}
  RestTargets = {0, 4}
  Handoffs <- SomeHandoffs
  Trims <- SomeTrims
  Bracket = 1
  MaxWeight = 5
  RestStates = {0, 1, 3}
  QueueLength = 2
  NotANumber = NotANumber
INVARIANTS
  PassIsInsideBracket
