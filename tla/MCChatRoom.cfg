SPECIFICATION RoomFairSpec
CONSTANTS
  c1 = c1
  c2 = c2
  Clients <- MCClients
  MAX_CLIENT = 2
  Limits = {2}
  Stallers = {c2}
  MaxMsg <- MCOne
  Stoppable = TRUE
  Main = Main
  Free = Free
  NoClient = NoClient
PROPERTIES GoneIsClosed MessageShown QuitEnds
CHECK_DEADLOCK FALSE
