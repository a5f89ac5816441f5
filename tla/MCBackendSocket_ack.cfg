\* A job that chansrv has no printer for is acknowledged all the same.
CONSTANTS
  Job = {j1}
  None = None
  MaxPieces = 1
  MaxConns = 1
  MaxPending = 1
  MaxBuffer = 1
  Faults = {"refused"}
  MaxAttempts = 1
  MaxSetups = 1
SPECIFICATION Spec
CHECK_DEADLOCK FALSE
INVARIANTS
  AckMeansSent
