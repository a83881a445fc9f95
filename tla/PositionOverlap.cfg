CONSTANTS
  TokenAmount = 20
  Dust = 0
  EntryPrice = 100
  Ladder <- StrategyLadder
  TrailingActivationPct = 30
  TrailingTrailPct = 15
  InitialStopLossPct = 20
  ReduceSellPct = 50
  WarnPct = 10
  ReducePct = 30
  EmergencyPct = 60
  MaxActionsPerTick = 10
  DatabaseBacked = TRUE
  WhaleEntryAmount = 100
  Prices <- StrategyPrices
  SellAmounts = {0, 35}
  MaxTrades = 2
SPECIFICATION Spec
CHECK_DEADLOCK FALSE
INVARIANTS TokensConserved StoredNeverAhead RungSoldOnce DueExitHasRunner
PROPERTIES ClosedIsFinal StopOnlyTightens
