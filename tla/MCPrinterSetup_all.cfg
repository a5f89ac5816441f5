\* Both modes, two printers that may share a queue name, two sessions, every fault.
CONSTANTS
  Device = {d1, d2}
  Name = {n1, n2}
  None = None
  MaxPrinters = 2
  Faults = {"cupsd", "lpadmin", "alarm", "listen", "accept"}
  MaxHelpers = 2
  MaxAnnounces = 2
  MaxSessions = 2
SPECIFICATION FairSpec
CHECK_DEADLOCK FALSE
INVARIANTS
  TypeOK
  WaitingHasPipe
  QueuesLeftAreLate
  ListenerReachable
PROPERTIES
  SetupEnds
  PrinterSettled
