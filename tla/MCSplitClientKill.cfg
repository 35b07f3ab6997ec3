SPECIFICATION FairSpec
CONSTANTS
  MaxLines = 1
PROPERTY SignalsItsChild
CHECK_DEADLOCK FALSE
