CONSTANTS
  a = a
  b = b
  None = None
  Msg <- MCMsg
  DataLen <- MCDataLen
  BufLen = 16
  HeadLen = 2
  KeepAll = FALSE
SPECIFICATION HSpec
INVARIANTS FrontAligned HandIntact CalmInv
PROPERTY CalmIsFifo
