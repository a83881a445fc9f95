CONSTANTS
  Entries <- FourEntries
  TokenOf <- FourTokens
  ClusterPeers <- FourPeers
  TradeSize = 2
  Values = {1}
  MaxOpenPositions = 2
  MaxTotalExposure = 4
  MaxPerTokenExposure = 3
  MaxPerClusterExposure = 3
  MaxInFlight = 2
SPECIFICATION FairSpec
CHECK_DEADLOCK FALSE
INVARIANTS OvershootBounded ExposureBounded
PROPERTIES KillStopsLaterEntries OpenedIsManaged
