CONSTANTS
  Client <- MCClient
  Half = 4
  Base = 8
  Payload <- MCPayload
  MaxMsgLen = 5
  HeadLen = 2
  MaxGram = 3
SPECIFICATION Spec
CHECK_DEADLOCK FALSE
INVARIANTS IInv EachItsOwn
PROPERTIES EveryRequestEnds
