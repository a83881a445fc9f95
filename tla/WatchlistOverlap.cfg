CONSTANTS
  Wallets <- ThreeWallets
  Manual = {"listed"}
  Linked <- CommonFunder
  AutoPromote = TRUE
  MaxTrades = 3
  MaxInFlight = 2
  MaxCommands = 1
  MaxRestarts = 1
SPECIFICATION Spec
CHECK_DEADLOCK FALSE
INVARIANTS LinkedLetThroughOnce AnnouncementsBounded StoredDecisionInForce
