SPECIFICATION MCSpec
CONSTANTS
  Workers = {w1, w2}
  Wakers = {k1}
  Owner = o
  Generations = 1
  Polls = 2
  Refusals = 1
  None = None
SYMMETRY WorkerSymmetry
INVARIANTS OneJob WakeNotLost RefsExact JoinNotLost
CHECK_DEADLOCK FALSE
