SPECIFICATION LiveSpec
CONSTANTS
  StackCapacity = 2
  ChunkSize = 1
  OnDemand = TRUE
  max_live_fibers = 2
  class_capacity <- MC_class_capacity
  Carriers = {0, 1}
  Clients = {k1, k2, k3}
  k1 = k1
  k2 = k2
  k3 = k3
  Sources = {s1, s2}
  Configs <- MCConfigs
  None = None
INVARIANTS OnePlace ErrorMeansShutdown AdmissionHonest HandlesExact JoinNotLost LedgerTruth
CHECK_DEADLOCK FALSE
PROPERTIES TasksFinish CarriersExit
