CONSTANTS
  Room = 1
  Size = {1, 2}
  MaxBytes = 3
  LenWord = 2
  CopySize = 2
  MaxMsgLen = 5
  ReqLen = {2, 3, 5, 6}
  MaxReq = 2
SPECIFICATION Spec
CHECK_DEADLOCK FALSE
INVARIANTS IInv InFrame InOrder CrashNeedsSingle
PROPERTIES EveryByteDelivered EveryRequestHandled
