\* Everything that may happen, at once, also after what amiss remembers.
CONSTANTS
  Recs <- MCRecs
  Lots = 1
  MaxSize = 1
  PartialCommands = TRUE
  Faults = {"partial", "error", "lost", "unattached", "mismatch", "setstop", "user"}
SPECIFICATION Spec
CONSTRAINT FewRecords
INVARIANTS
  UpdatesBalanced
