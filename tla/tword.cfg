CONSTANTS
  InFileCount = 4
  FileContents <- SmallFiles
  str_toupper <- Upper
  OpenMayFail = TRUE
SPECIFICATION FairSpec
INVARIANTS TypeOK SlotsAreOwned CountsExact
PROPERTIES Returns
