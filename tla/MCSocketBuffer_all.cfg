\* In the code a first allocation is 64 KB, the limit is 2^12 and the width 2^16
\* times as much; here they are 2^4 and 2^6 times.  The backend's messages have at
\* most the size of a first allocation (1 to 4).  One below the width less the
\* limit, 191, never wraps around; 192 may on a full buffer; 252 and 255 often do.
CONSTANTS
  Width = 256
  Limit = 64
  Start = 4
  DataLen = {1, 2, 3, 4, 191, 192, 252, 255}
  Capacities = {4, 8, 16, 32, 64}
  MaxReceived = 330
SPECIFICATION FairSpec
CHECK_DEADLOCK FALSE
INVARIANTS
  TypeOK
  FitsUnlessWrapped
  LengthIsTrue
  CutOnlyIfTooLarge
PROPERTIES
  GrowthEnds
