SPECIFICATION WsSpec
CONSTANTS
  InitialRQ = 4
  GrowLimit = 6
  Headroom = 2
  SQSize = 3
  IntSizes = {1, 2}
  MaxMsg = 4
  MaxArrived = 8
  MaxPushed = 4
INVARIANTS SentAsPushed
PROPERTIES ImplementsStream
CHECK_DEADLOCK FALSE
