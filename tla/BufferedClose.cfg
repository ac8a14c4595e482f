SPECIFICATION FairSpec
CONSTANTS
  Max = 4
  Packet = 3
  Counts = {2}
  MaxBytes = 4
PROPERTIES
  ReadReturns
CHECK_DEADLOCK FALSE
