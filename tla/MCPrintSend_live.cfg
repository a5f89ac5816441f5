\* One connection of a client that may fail any request and truncate any answer:
\* every job ends, and those it does not fail are printed.
CONSTANTS
  j1 = j1
  j2 = j2
  Job = {j1, j2}
  Device = {d1}
  FileId = {f1, f2}
  None = None
  MaxLen = 2
  Chunk = 2
  Faults = {"failure", "truncated"}
  MaxZeroWrites = 1
  MaxSessions = 1
SPECIFICATION OrderedSpec
CHECK_DEADLOCK FALSE
INVARIANTS
  NoPortLeaked
PROPERTIES
  JobsEnd
