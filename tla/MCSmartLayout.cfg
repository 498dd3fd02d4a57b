SPECIFICATION FairSmartSpec
CONSTANTS
  Vertices = {1, 2, 3}
  NoVertex = 0
  DataSizes = {4, 56}
  LayoutMode = "Old"
  ExpirationMapSize = 2
  BlockSize = 88
  WindowSize = 0
  MaxEdges = 4
  LocalityMetric = "RCCMixed"
  InitialCandidateCount = 2
INVARIANTS
  CandidateExact
  FinalizedListsFull
  SmartBlockFits
PROPERTIES
  ImplementsEdgeLog
  FlushPersists
  ExtensionGrows
