CONSTANTS
  None = None
  Cfg <- MCCfg
  Bars <- MCBars
  Trends <- MCTrends
  Modes = {"BREAKOUT", "RETEST", "SCOUT"}
  RequireHold = TRUE
  MaxWait = 2
  Lookback = 2
  HistoryLength = 3
  MaxAge = 2
SPECIFICATION Spec
INVARIANTS OncePerCandle StructureStopLoses
PROPERTIES BreakoutNeverStale
