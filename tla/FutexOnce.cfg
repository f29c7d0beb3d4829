SPECIFICATION OnceSpec
CONSTANTS
  Callers = {t1, t2, t3}
  Empty = empty
  Calls = 2
INVARIANT OneValue
PROPERTY EveryCallReturns
CHECK_DEADLOCK FALSE
