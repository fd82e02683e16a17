\* Engines may stall beyond the life of the key.
CONSTANTS
  Engines = {e1, e2, e3}
  NoEngine = NoEngine
  TTL = 3
  MaxGap = 5
SPECIFICATION FairSpec
INVARIANTS
  OneFresh
PROPERTIES
  ImplementsSingleEngine
  OnlyOwnerReleases
  OnlyOwnerRefreshes
  DeadOwnerExpires
CHECK_DEADLOCK FALSE
