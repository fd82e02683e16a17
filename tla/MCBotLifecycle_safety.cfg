\* Two overlapping WebSocket recoveries, every fault, one restart; the commands that change
\* the state machine (the others: MCBotLifecycle_liveness.cfg).
CONSTANTS
  WsTasks = {w1, w2}
  ReconcileTasks = {"loop", "event"}
  Commands = {"START", "PAUSE", "RESUME", "STOP_CLOSE"}
  MaxCommands = 3
  MaxRuns = 2
  Faults = {"reconcile", "recover", "publish", "announce", "close"}
SYMMETRY WsSymmetry
SPECIFICATION Spec
INVARIANTS
  TypeOK
  TradingOnlyAfterStart
  AtMostOneLateEntry
PROPERTIES
  LockLeadsOnlyToStop
  ShutdownIsFinal
CHECK_DEADLOCK FALSE
