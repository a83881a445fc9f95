CONSTANTS
  Mints = {"mint1", "mint2"}
  Facts = {"funder"}
  MinInterval = 2
  MaxConcurrent = 2
  RetryCooldown = 3
  CacheTtl = 4
  MaxTime = 7
SPECIFICATION GovernorSpec
CHECK_DEADLOCK FALSE
INVARIANTS RateLimited ColdKeyCoolsDown
