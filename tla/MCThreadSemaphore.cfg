SPECIFICATION FairSpec
CONSTANTS
  LOOP_SIZE = 5
  Numbers <- SomeNumbers
  Empty = Empty
INVARIANTS EachAddedOnce DestroyedUnused
PROPERTIES ImplementsBuffer MainEnds
