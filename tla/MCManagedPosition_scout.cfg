CONSTANTS
  PartialR = 4
  TrailR = 6
  ExtendedR = 6
  Distance <- MCFlat
  GraceBars = 1
  MinHold = 1
  WarnBars = 1
  MaxDefensive = 2
  StagnantBars <- MCSlow
  SlowBars <- MCSlow
  RetestGrace = 0
  WeakBars = 2
  ReclaimBars = 1
  EntryModes = {"SCOUT"}
  Prices <- MCPrices
  Candles <- MCScoutCandles
  Snapshots <- MCScoutSnapshots
  Faults = {"unfilled", "raise", "log", "restart"}
SPECIFICATION Spec
INVARIANTS ReductionsBounded
