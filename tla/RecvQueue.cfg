CONSTANTS
  a = a
  b = b
  None = None
  Msg <- MCMsg
  DataLen <- MCDataLen
  BufLen = 16
  HeadLen = 2
  Worker = {w1, w2}
SPECIFICATION QSpec
INVARIANTS DealtIntact
