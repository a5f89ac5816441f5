\* Where XDG_RUNTIME_DIR is set the queues outlive the connection.
CONSTANTS
  Device = {d1}
  Name = {n1}
  None = None
  MaxPrinters = 1
  Faults = {}
  MaxHelpers = 1
  MaxAnnounces = 1
  MaxSessions = 1
SPECIFICATION Spec
CHECK_DEADLOCK FALSE
INVARIANTS
  DisconnectRemovesQueues
