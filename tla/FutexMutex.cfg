SPECIFICATION Spec
CONSTANTS
  Threads = {t1, t2, t3}
  Rounds = 2
PROPERTIES EveryLockReturns ImplementsExclusion
CHECK_DEADLOCK FALSE
