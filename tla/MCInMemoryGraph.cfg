SPECIFICATION FairSpec
CONSTANTS
  Vertices = {1, 2, 3}
  NoVertex = 0
  DataSizes = {4, 20}
  LayoutMode = "Old"
  ExpirationMapSize = 1
  BlockSize = 104
  WindowSize = 1
  MaxEdges = 5
INVARIANTS
  TypeOK
  SizeExact
  QueueMatchesLists
  OldestEdgeAgrees
  BlockSizeExact
  ExpirationMapBounded
PROPERTIES
  ImplementsEdgeLog
  FlushPersists
