CONSTANTS
  a = a
  b = b
  None = None
  Msg <- MCMsg
  DataLen <- MCDataLen
  BufLen = 16
  HeadLen = 2
  KeepAll = TRUE
SPECIFICATION HSpec
PROPERTY ImplementsFifo
