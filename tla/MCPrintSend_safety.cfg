\* Two jobs on one printer over two connections, every fault of the client
\* and of the IRP allocation; jobs of up to three bytes in chunks of two.
CONSTANTS
  j1 = j1
  j2 = j2
  Job = {j1, j2}
  Device = {d1}
  FileId = {f1, f2}
  None = None
  MaxLen = 3
  Chunk = 2
  Faults = {"no_memory", "failure", "truncated"}
  MaxZeroWrites = 1
  MaxSessions = 2
SPECIFICATION Spec
SYMMETRY Interchangeable
CHECK_DEADLOCK FALSE
INVARIANTS
  TypeOK
  CallbackFindsContext
  RequestHitsOwnPort
  PrintsPrefix
  NeverOverclaims
PROPERTIES
  DeliversJobs
