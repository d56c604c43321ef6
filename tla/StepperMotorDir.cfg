SPECIFICATION Spec
CONSTANTS
  Senders = {menu, rest}
  MaxSpeed = 2
  Inverted = FALSE
  Empty = Empty
  Nothing = Nothing
PROPERTIES
  DirTogglesAtRest
