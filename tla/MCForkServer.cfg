SPECIFICATION Spec
CONSTANTS
  c1 = c1
  c2 = c2
  Clients = {c1, c2}
  Bytes <- TwoEach
  BUFFER_SIZE = 2
  PipeSize = 3
  Rounds = 2
  Parent = Parent
  NoClient = NoClient
SYMMETRY ClientSymmetry
INVARIANTS ZombiesNoticed NoStrayCopies StoredInOrder
CHECK_DEADLOCK FALSE
