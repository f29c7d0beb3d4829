SPECIFICATION RwSpec
CONSTANTS
  Lockers = {t1, t2, t3}
  RwRounds = 2
PROPERTIES EveryRwLockReturns ImplementsSharing
CHECK_DEADLOCK FALSE
