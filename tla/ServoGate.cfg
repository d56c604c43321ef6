SPECIFICATION GateFairSpec
CONSTANTS
  Callers = {menu, rest}
  Menu = menu
  Closed = 2
  NoCommand = NoCommand
  NotANumber = NotANumber
INVARIANTS
  NoLostWakeup
  LastCommandWins
PROPERTIES
  AloneCallIsSynchronous
  BlockedCallReturns
