CONSTANTS
  Symbols = {"a", "b"}
  Modes = {"SCOUT", "BREAKOUT", "RETEST"}
  SymbolWindow = 0
  SymbolWindow2 = 1
  GlobalWindow = 1
  ModeWindow = 0
  FailureWindow = 1
  DropWindow = 1
  Limits <- MCLimits
  Risk <- MCRisk
  MaxPositions = 2
  Requests <- MCRequests
  Slip = 1
  MaxRisk = 40
  MaxCallers = 2
  CloseFails = TRUE
  Intervenes = FALSE
SPECIFICATION Spec
PROPERTY OnePositionPerSymbol
