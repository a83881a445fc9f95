CONSTANTS
  TokenAmount = 20
  Dust = 0
  EntryPrice = 100
  Ladder <- StrategyLadder
  TrailingActivationPct = 30
  TrailingTrailPct = 15
  InitialStopLossPct = 20
  ReduceSellPct = 50
  WarnPct = 10
  ReducePct = 30
  EmergencyPct = 60
  MaxActionsPerTick = 10
  DatabaseBacked = FALSE
  WhaleEntryAmount = 100
  Prices = {75, 200}
  SellAmounts = {20, 40}
  MaxTrades = 2
SPECIFICATION FairSpec
CHECK_DEADLOCK FALSE
PROPERTIES WhaleResponseEscalates TasksFinish LateTradeCloses FullExitAnnounced
