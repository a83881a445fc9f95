CONSTANTS
  MaxTrades = 2
  Listed = {"whale"}
  Strangers = {"stranger"}
  Capacity = 3
  Limit = 2
  RowLimit = 1
  None = None
SPECIFICATION FairSpec
CHECK_DEADLOCK FALSE
INVARIANTS RowsComplete OverviewAddsUp SignalFeedInOrder
PROPERTIES EverySignalDecided
