SPECIFICATION Spec
CONSTANTS
  Workers = {w1, w2}
  Wakers = {k1}
  Owner = o
  Generations = 1
  Polls = 1
  Refusals = 0
  None = None
INVARIANT JoinReturnsResult
CHECK_DEADLOCK FALSE
