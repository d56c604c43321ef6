SPECIFICATION FairSpec
CONSTANTS
  Senders = {menu, rest}
  MaxSpeed = 2
  Inverted = FALSE
  Empty = Empty
  Nothing = Nothing
INVARIANTS
  DirectionAgrees
PROPERTIES
  ServoSpec
  SettlesOnLast
