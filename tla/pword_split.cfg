SPECIFICATION Spec
CONSTANTS
  InFileCount = 2
  FileContents <- LongFiles
  str_toupper <- Upper
  WordLength <- Third
  MsgSize = 128
  MqMaxMsg = 2
  ForkMayFail = FALSE
  OpenMayFail = FALSE
  MaxRuns = 1
INVARIANTS
  CountsExact
