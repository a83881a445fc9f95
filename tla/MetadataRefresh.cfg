CONSTANTS
  Mints = {"coin"}
  Facts = {"funder"}
  MinInterval = 1
  MaxConcurrent = 1
  RetryCooldown = 1
  CacheTtl = 0
  MaxTime = 1
  Authorities = {"mint"}
  Liquidities = {2, 5}
  Tops = {30, 60}
  None = None
  MaxChanges = 1
SPECIFICATION FairSpec
CHECK_DEADLOCK FALSE
INVARIANTS RevokedIsReal RugNeedsAnswers
PROPERTIES HttpRefreshEnds 
