\* Everything that may happen, at once, up to the first event of amiss: answers
\* that are old when they are used, orders that execute in part, requests,
\* events and logs that raise, stops that are missing, unverified or refused.
CONSTANTS
  Recs <- MCRecs
  Lots = 2
  MaxSize = 2
  PartialCommands = TRUE
  Faults = {"partial", "error", "lost", "unattached", "mismatch", "setstop", "user"}
SPECIFICATION Spec
CONSTRAINT Undisturbed
INVARIANTS
  InStep
  BookedOnce
  AdoptsOnlyForeign
  ActiveIsProtected
