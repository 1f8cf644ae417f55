CONSTANTS
  FdNum <- MCFdNum
  MaxFds = 7
  MaxOpen = 4
SPECIFICATION Spec
CHECK_DEADLOCK FALSE
INVARIANTS ReplyGoesToAsker
