SPECIFICATION Spec
CONSTANTS
  Vertices = {1, 2}
  MaxTime = 4
  MaxBlocks = 2
INVARIANTS
  FocusedQueryExact
  IntervalQueryExact
  BatchCovers
