CONSTANTS
  w1 = w1
  w2 = w2
  Worker <- Workers
  Net = Net
  None = None
  MaxMsg = 4
  ReqLen = {4, 7, 9}
  MaxMsgLen = 8
  HeadLen = 2
  RecvCap = 2
  SendCap = 2
SPECIFICATION FairSpec
INVARIANTS OnePlace NoLostWakeup NoLostNotification HandOverInv
PROPERTIES EveryPushEnds
