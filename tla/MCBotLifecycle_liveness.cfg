\* Two recoveries that succeed, other reconciliations may raise, the command
\* loop survives.
CONSTANTS
  WsTasks = {w1, w2}
  ReconcileTasks = {"event"}
  Commands <- AllCommands
  MaxCommands = 2
  MaxRuns = 1
  Faults = {"reconcile", "announce", "close"}
SPECIFICATION FairSpec
PROPERTIES
  RecoveryEnds
  BreachEndsTrading
  StopEndsProcess
CHECK_DEADLOCK FALSE
