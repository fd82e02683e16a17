\* A candle of two ticks of 30 seconds; an await may last one of them.
CONSTANTS
  None = None
  Intervals <- MCIntervals
  TicksPerCandle = 2
  Flight = 1
  Drifts <- MCDrifts
  MaxHistory = 4
  Limit = 3
  RefreshAge = 2
  MaxAge = 3
  MaxMissing = 1
  MaxClosed = 5
SPECIFICATION FairSpec
INVARIANTS InOrder HolesCounted JudgedOnWhole
PROPERTIES NeverGoesBack GapsRepaired
