SPECIFICATION ExecSpec
CONSTANTS
  Dispatchers = {d1, d2, d3, d4}
  WorkerCounts = {1, 2}
  Capacity = 1
  EventBatch = 2
  Pipe = pipe
  s1 = s1
  s2 = s2
  Workloads <- MCWorkloads
  None = none
SYMMETRY DispatcherSymmetry
INVARIANTS InflightExact SignalsCover WaitKept KeysNamed DriverNotified
CHECK_DEADLOCK FALSE
