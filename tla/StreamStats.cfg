SPECIFICATION Spec
CONSTANTS
  Wallets = {"ann", "bob"}
  Tokens = {"coin", "other"}
  Trades <- SomeTrades
  OneHour = 3600
  FiveMin = 300
  EarlyWindow = 120
  None = None
  MaxTrades = 5
INVARIANTS LiveStatsExact StoredAgrees EarlyBuysCounted WalletStatsExact
CHECK_DEADLOCK FALSE
