SPECIFICATION FairSpec
CONSTANTS
  c1 = c1
  c2 = c2
  Clients = {c1, c2}
  Stallers = {c2}
  Input <- Lines
  Bytes <- Letters
  BUFFER_SIZE = 2
  EPOLL_SIZE = 2
  Limits = {1, 2}
  Newline = Newline
  Nul = Nul
  NoClient = NoClient
INVARIANTS WatchedOpen EchoesText
PROPERTIES BytesAreRead GoneIsClosed
CHECK_DEADLOCK FALSE
