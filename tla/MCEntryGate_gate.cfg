CONSTANTS
  Symbols = {"a", "b"}
  Modes = {"SCOUT", "BREAKOUT", "RETEST"}
  SymbolWindow = 0
  SymbolWindow2 = 0
  GlobalWindow = 0
  ModeWindow = 0
  FailureWindow = 0
  DropWindow = 0
  Limits <- MCLimits
  Risk <- MCRisk
  MaxPositions = 2
  Requests <- MCRequests
  Slip = 1
  MaxRisk = 21
  MaxCallers = 1
  CloseFails = TRUE
  Intervenes = TRUE
SPECIFICATION FairSpec
INVARIANTS WithinLimits OneLateOrder
PROPERTIES TripLocks OpenRiskBounded SymbolCooldownHolds
