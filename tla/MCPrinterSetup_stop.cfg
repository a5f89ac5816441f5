\* The private cupsd goes on when the client has disconnected.
CONSTANTS
  Device = {d1}
  Name = {n1}
  None = None
  MaxPrinters = 1
  Faults = {}
  MaxHelpers = 1
  MaxAnnounces = 1
  MaxSessions = 1
SPECIFICATION Spec
CHECK_DEADLOCK FALSE
INVARIANTS
  PrivateCupsdStops
