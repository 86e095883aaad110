CONSTANTS
  W = 4
  M = 2
  L = 8
  Buffer = 1
  Start = 8
  Times = {6}
  MaxTrades = 2
  MaxNow = 13
  MaxFaults = 0
  MaxRestarts = 1
  None = None
SPECIFICATION Spec
INVARIANT RowFresh
CHECK_DEADLOCK FALSE
