CONSTANTS
  MinSize = 1
  MidSize = 2
  MoveSize = 4
  CopySize = 8
  Byte = 3
  MaxCall = 5
  MaxTotal = 13
SPECIFICATION Spec
INVARIANTS IInv AssertionsHold HangNeedsBacklog
PROPERTIES ImplementsByteQueue ImplementsRecvBuffer ReadsCounted OldestOfBlock
CHECK_DEADLOCK FALSE
