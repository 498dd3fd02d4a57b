CONSTANTS
    a = a
    b = b
    Attributes = {a, b}
    Infinity = 12
    NotFound = NotFound
    Corrupt = Corrupt
    Garbled = Garbled
    PartitioningBufferSize = 3
    BlockLists <- MCBlockLists
    LookupTimes <- MCAllTimes
    Partitionings <- MCPartitionings
    CutTimes <- MCCutTimes
    MaxBlocks = 0
    MaxReplacements = 1
SPECIFICATION Spec
PROPERTIES LookupFindsSlice
