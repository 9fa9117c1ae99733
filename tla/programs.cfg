SPECIFICATION Spec
CONSTANTS
  IntHalf = 64
  RAND_MAX = 63
  LogReach = 3
  CommandLines <- SmallCommandLines
  WorkloadFiles <- SmallFiles
  RandomInputs <- SmallRandomInputs
  InputFiles <- SmallInputFiles
  NODE_COUNT = 7
  BLOCK_SIZE = 4
  SeekLimit = 8
  Disks <- SmallDisks
INVARIANTS
  DrawnInRange
  LinesInOrder
  LengthAgrees
  RandomAddressesMapped
  AddressesKeepTheirPlace
  TraversalSorted
  ListsDirectory
  InodesMatch
PROPERTIES
  DrawsEnd
