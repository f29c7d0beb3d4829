SPECIFICATION SemSpec
CONSTANTS
  Takers = {t1, t2, t3}
  Initial = 0
  MaxPermits = 2
  Batch = {1, 2}
  SemCalls = 2
INVARIANT PermitsNotStranded
CHECK_DEADLOCK FALSE
