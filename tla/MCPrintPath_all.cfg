\* Two jobs of up to three pieces, one of them too large, compete for one slot;
\* two backends, two listeners, every fault.
CONSTANTS
  j1 = j1
  j2 = j2
  Job = {j1, j2}
  None = None
  MaxPieces = 3
  MaxConns = 1
  MaxPending = 1
  MaxBuffer = 2
  Faults = {"slow", "killed", "refused", "accept", "listen"}
  MaxAttempts = 2
  MaxSetups = 2
SPECIFICATION OrderedSpec
CHECK_DEADLOCK FALSE
INVARIANTS
  TypeOK
  HandedWhole
  DoneMeansAsked
  DuplicatesOnlyAfterKill
  OneCopyPerKill
  DoneIsInSending
PROPERTIES
  AttemptsEnd
  SlotsFreed
  NothingPrintedAfterEnd
