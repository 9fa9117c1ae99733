SPECIFICATION Spec
CONSTANTS
  N = 3
  TotalProcessCount = 2
  MaxRunqueueLength = 2
  ProcessParams <- HeavyAndEmptyParams
  VruntimeScale = 9
  Timeslice <- runqueue_timeslice
  SpuriousWakeups = FALSE
INVARIANTS
  IInv
  TeardownNeedsTotal
CHECK_DEADLOCK FALSE
