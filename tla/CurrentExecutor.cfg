SPECIFICATION Spec
CONSTANTS
  Capacity = 2
  EventBatch = 1
  s1 = s1
  s2 = s2
  Workloads <- MCWorkloads
  None = none
INVARIANTS
  SlotsAccounted
  JobsExact
  RegistrationsExact
  WakeNotLost
  PollUndisturbed
CHECK_DEADLOCK FALSE
