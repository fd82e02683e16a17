CONSTANTS
  PartialR = 4
  TrailR = 4
  ExtendedR = 5
  Distance <- MCDistance
  GraceBars = 1
  MinHold = 0
  WarnBars = 0
  MaxDefensive = 1
  StagnantBars <- MCStagnant
  SlowBars <- MCSlow
  RetestGrace = 1
  WeakBars = 2
  ReclaimBars = 1
  EntryModes = {"BREAKOUT", "RETEST"}
  Prices <- MCPrices
  Candles <- MCTrailCandles
  Snapshots <- MCTrailSnapshots
  Faults = {"unfilled", "raise", "event", "sync"}
SPECIFICATION Spec
INVARIANTS ReductionsBounded ClosingHasAnExit
PROPERTIES StopOnlyTightens ExchangeStopOnlyTightens
