SPECIFICATION Spec
CONSTANTS
  N = 2
  TotalProcessCount = 2
  MaxRunqueueLength = 1
  ProcessParams <- LightParams
  VruntimeScale = 9
  Timeslice <- runqueue_timeslice
  SpuriousWakeups = FALSE
PROPERTIES
  LimitRespected
