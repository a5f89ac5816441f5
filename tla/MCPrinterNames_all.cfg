\* Displays 1 and 12 with two printers each; all use the system's cupsd, or each its own.
CONSTANTS
  Session = {1, 12}
  Device = {2, 26}
  Announcement <- FewAnnouncements
  MaxName = 3
  MaxPrinters = 2
  Faults = {"helper", "lpadmin", "crash"}
  MixedModes = FALSE
  MaxStarts = 2
  MaxAnnounces = 3
SPECIFICATION Spec
CHECK_DEADLOCK FALSE
INVARIANTS
  TypeOK
  QueuesLeadHome
  NothingLeft
  NamedByClient
