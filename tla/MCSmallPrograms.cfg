CONSTANTS
  r1 = r1
  r2 = r2
  host = host
  Sizes = {0, 1, 2, 3, 4}
  BUF_SIZE = 2
  CONNECTION_SIZE = 3
  Clients <- MCClients
  Host = host
  SEND_SIZE = 2
  Lines = {0, 1, 2}
  MaxAsked = 2
  MaxDoubled = 1
  Script <- MCScript
  MaxLine = 2
  MaxPieces = 3
  RecvSize = 2
  KidCount = 4
  MaxTyped = 3
  MaxLines = 3
SPECIFICATION AllFairSpec
CHECK_DEADLOCK FALSE
INVARIANTS
  ArrivesWhole
  EchoesOwn
  NewsInOrder
  BytesShown
  ReadsAllEchoes
PROPERTIES
  ThanksHeard
  NobodyWaitsForEver
  WaitedForComes
  BothEnd
