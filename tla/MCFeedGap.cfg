CONSTANTS
  PageSize = 2
  Before = 3
  MaxLog = 5
  MaxDrop = 1
SPECIFICATION FeedSpec
INVARIANT SnapshotGapIsBridged
CHECK_DEADLOCK FALSE
