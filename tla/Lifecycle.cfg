CONSTANTS
  MaxId = 2
  MaxAdd = 3
  BuffLen = 6
  Cfg <- MCCfg
  MaxReq = 1
SPECIFICATION Spec
CHECK_DEADLOCK FALSE
INVARIANTS LifeInv CfgAsMeant BreaksKnown IdsFindTimers OneShotOnce
PROPERTIES TermIsOrderly ExpiryIsOwn
