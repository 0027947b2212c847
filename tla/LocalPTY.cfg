SPECIFICATION Spec
CONSTANTS
  Requests = 2
  MaxResizes = 1
  MaxKeys = 1
PROPERTY ReceiveEnds
CHECK_DEADLOCK FALSE
