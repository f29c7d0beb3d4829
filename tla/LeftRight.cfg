SPECIFICATION TableSpec
CONSTANTS
  READERS = 2
  Updates = 3
  Reads = 3
PROPERTIES GuardStable EveryUpdateReturns
CHECK_DEADLOCK FALSE
