CONSTANTS
    a = a
    b = b
    Attributes = {a, b}
    Infinity = 12
    NotFound = NotFound
    Corrupt = Corrupt
    Garbled = Garbled
    PartitioningBufferSize = 2
    BlockLists <- MCBlockLists
    LookupTimes <- MCInnerTimes
    Partitionings <- MCPartitionings
    CutTimes <- MCMoreCutTimes
    MaxBlocks = 2
    MaxReplacements = 2
    AvgSize <- MCAvgSize
SPECIFICATION FairDataSpec
INVARIANTS TypeOK SlicesTile CacheMatchesDb ListBounded BlocksReadable NothingGarbled SubBlocksOwned EdgeDataComplete
PROPERTIES LookupFindsSlice ReplacementEnds
CHECK_DEADLOCK FALSE
