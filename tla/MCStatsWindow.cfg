CONSTANTS
  W = 4
  M = 2
  L = 8
  Buffer = 1
  Start = 8
  Times = {0, 2, 5, 6, 9, 10}
  MaxTrades = 2
  MaxNow = 12
  MaxFaults = 1
  MaxRestarts = 1
  None = None
SPECIFICATION Spec
INVARIANTS TypeOK RingHolds SeedDoublesAtMost LongIsShortPlusOlder RowFreshWhileTracked
CHECK_DEADLOCK FALSE
