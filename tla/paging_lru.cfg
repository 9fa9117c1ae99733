SPECIFICATION Spec
CONSTANTS
  VirtualAddresses <- RandomAddresses
  VirtualRegions <- RandomRegions
  NumOfFrames = 3
  ReplacementAlgorithm = "LRU"
  InputLength = 7
  FarFuture = 999999
INVARIANTS
  OutputConsistent
  FaultsAsDefined
PROPERTIES
  ImplementsReplacement
