SPECIFICATION Spec
CONSTANTS
  c1 = c1
  c2 = c2
  Clients = {c1, c2}
  Limits = {2, 5}
  None = None
SYMMETRY ClientSymmetry
INVARIANTS AnswersOwnRequest SerialLeavesNothing
CHECK_DEADLOCK FALSE
