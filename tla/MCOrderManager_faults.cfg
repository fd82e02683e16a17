\* Every fault of the exchange client.
CONSTANTS
  Qty <- MCQty
  Held <- MCHeld
  Keep <- MCKeep
  Tries <- MCTries
  MaxPolls = 2
  Faults = {"error", "timeout", "cancel", "lookup", "recover", "log"}
SPECIFICATION Spec
INVARIANTS
  NeverOverReports
  KnownWhileOpen
  NothingLeftResting
PROPERTIES
  ReservationsReleased
CHECK_DEADLOCK FALSE
