CONSTANTS
    a = a
    b = b
    Attributes = {a, b}
    Infinity = 12
    NotFound = NotFound
    Corrupt = Corrupt
    Garbled = Garbled
    PartitioningBufferSize = 2
    BlockLists <- MCBlockLists
    LookupTimes <- MCThreeTimes
    Partitionings <- MCPartitionings
    CutTimes <- MCMoreCutTimes
    MaxBlocks = 0
    MaxReplacements = 2
SPECIFICATION Spec
INVARIANTS CacheBounded
