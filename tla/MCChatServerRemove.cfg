SPECIFICATION Spec
CONSTANTS
  Clients = {c1, c2}
  Silent = {c1, c2}
  MAX_CLIENT = 2
  Limits = {2}
  Stallers = {}
  MaxMsg <- Messages
  Stoppable = FALSE
  Main = Main
  Free = Free
  NoClient = NoClient
PROPERTY RemovesOnlyClosed
CHECK_DEADLOCK FALSE
