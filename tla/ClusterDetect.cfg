SPECIFICATION Spec
CONSTANTS
  Wallets <- ThreeWallets
  Trades <- SomeTrades
  Funder <- Funders
  Deployer = "dev"
  None = None
  MergeThreshold = 75
  PenaltyCap = 50
  MaxTrades = 3
INVARIANTS
  ClustersAreComponents
  VerdictNotWeakened
PROPERTY FlagsStay
