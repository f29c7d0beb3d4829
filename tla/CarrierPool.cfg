SPECIFICATION MCSpec
CONSTANTS
  Jobs = {j1, j2, j3}
  WorkerCount = 2
  QueueItems = 1
  MaxWorkers = 2
  Policies = {"Drain", "Cancel"}
  Boundaries = {"LocalOnly", "Global", "Located"}
  None = none
INVARIANT TokensCover
PROPERTIES AcceptedJobsFinish StealFreeShutdownReturns
CHECK_DEADLOCK FALSE
