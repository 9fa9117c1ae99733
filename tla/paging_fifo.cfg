SPECIFICATION Spec
CONSTANTS
  VirtualAddresses <- SmallAddresses
  VirtualRegions <- SmallRegions
  NumOfFrames = 2
  ReplacementAlgorithm = "FIFO"
  InputLength = 7
  FarFuture = 5
INVARIANTS
  FrameOwnership
  FaultsAsDefined
  IInv
PROPERTIES
  ImplementsReplacement
