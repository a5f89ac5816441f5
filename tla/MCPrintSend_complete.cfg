\* A job whose WRITE fails is logged as complete once its port is closed.
CONSTANTS
  j1 = j1
  j2 = j2
  Job = {j1}
  Device = {d1}
  FileId = {f1}
  None = None
  MaxLen = 1
  Chunk = 1
  Faults = {"failure"}
  MaxZeroWrites = 0
  MaxSessions = 1
SPECIFICATION Spec
CHECK_DEADLOCK FALSE
INVARIANTS
  CompleteMeansPrinted
