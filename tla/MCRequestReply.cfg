SPECIFICATION FairSpec
CONSTANTS
  Requests <- Entered
  Lines <- TextLines
  MaxRequests = 2
  CONNECTION_SIZE = 1
  OP_PARAM_SIZE = 2
  Width = 256
  BUF_SIZE = 8
  READ_SIZE = 3
  OP_RESULT_SIZE = 2
  Err = Err
  Garbled <- GarbledResults
INVARIANTS ResultsCorrect ClientInStep
PROPERTY Answered
CHECK_DEADLOCK FALSE
