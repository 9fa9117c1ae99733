SPECIFICATION FairSpec
CONSTANTS
  N = 2
  TotalProcessCount = 2
  MaxRunqueueLength = 2
  ProcessParams <- MixedParams
  VruntimeScale = 9
  Timeslice <- runqueue_timeslice
  SpuriousWakeups = TRUE
PROPERTIES
  ImplementsCpu
  QueuedEventuallyRuns
  EventuallyReturns
