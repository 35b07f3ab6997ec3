SPECIFICATION Spec
CONSTANTS
  Clients = {c1, c2, c3}
  Silent = {c3}
  MAX_CLIENT = 2
  Limits = {2}
  Stallers = {c3}
  MaxMsg <- Messages
  Stoppable = TRUE
  Main = Main
  Free = Free
  NoClient = NoClient
SYMMETRY SenderSymmetry
INVARIANTS CountIsUnremoved RosterExact SameOrder
PROPERTIES TableHeldStill CastReachesAll
CHECK_DEADLOCK FALSE
