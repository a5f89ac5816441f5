\* A session with a private cupsd next to one that uses the system's.
CONSTANTS
  Session = {1, 12}
  Device = {2}
  Announcement <- FewAnnouncements
  MaxName = 3
  MaxPrinters = 1
  Faults = {}
  MixedModes = TRUE
  MaxStarts = 2
  MaxAnnounces = 2
SPECIFICATION Spec
CHECK_DEADLOCK FALSE
INVARIANTS
  SystemQueuesKept
