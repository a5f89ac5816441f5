\* A printer announced while the helper runs is marked as having a queue.
CONSTANTS
  Device = {d1, d2}
  Name = {n1, n2}
  None = None
  MaxPrinters = 2
  Faults = {}
  MaxHelpers = 1
  MaxAnnounces = 2
  MaxSessions = 1
SPECIFICATION Spec
CHECK_DEADLOCK FALSE
INVARIANTS
  CreatedHasQueue
