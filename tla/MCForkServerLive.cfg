SPECIFICATION FairSpec
CONSTANTS
  c1 = c1
  c2 = c2
  Clients = {c1, c2}
  Bytes <- Three
  BUFFER_SIZE = 1
  PipeSize = 1
  Rounds = 1
  Parent = Parent
  NoClient = NoClient
PROPERTIES GoneIsReaped EchoedInTheEnd
CHECK_DEADLOCK FALSE
