SPECIFICATION GateSpec
CONSTANTS
  Callers = {menu, rest}
  Menu = menu
  Closed = 2
  NoCommand = NoCommand
  NotANumber = NotANumber
PROPERTIES
  BlockingCallIsSynchronous
