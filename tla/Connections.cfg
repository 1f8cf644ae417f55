CONSTANTS
  FdNum <- MCFdNum
  MaxFds = 7
  MaxOpen = 9
SPECIFICATION Spec
CHECK_DEADLOCK FALSE
INVARIANTS IInv TableMatchesKernel NothingLeaked ConnectorsMatch 
