SPECIFICATION Spec
CONSTANTS
  N = 3
  TotalProcessCount = 3
  MaxRunqueueLength = 2
  ProcessParams <- LightHeavyParams
  VruntimeScale = 9
  Timeslice <- runqueue_timeslice
  SpuriousWakeups = FALSE
INVARIANTS
  TypeOK
  MutualExclusion
  CpuAccounting
  RunqueueMatchesThreads
  SelectionStaysValid
  NoLostWakeup
  ServedExactly
  TeardownAfterLastBurst
PROPERTIES
  GrantsLeastVruntime
