CONSTANTS
  Config <- Strategy
  Lot = 3000
  Rois <- Returns
  MaxWins = 16
  MaxLosses = 4
  TokenValues <- Fields
  BestToken <- FreshToken
  None = None
  MaxMoves = 2
SPECIFICATION Spec
CHECK_DEADLOCK FALSE
INVARIANTS ThinSampleNeverOutscores
PROPERTIES RiskierNeverLooksBetter RecordDecides
