SPECIFICATION FairSpec
CONSTANTS
  InFileCount = 3
  FileContents <- MixedFiles
  str_toupper <- Upper
  WordLength <- Third
  MsgSize = 128
  MqMaxMsg = 2
  ForkMayFail = TRUE
  OpenMayFail = TRUE
  MaxRuns = 3
INVARIANTS
  TypeOK
  CountsExactUnlessSplit
  NothingLeftBehind
  EndMarkersAddUp
PROPERTIES
  EndedRunsCleanUp
  ParentReturns
\* A child whose file does not open leaves the parent waiting.
CHECK_DEADLOCK FALSE
