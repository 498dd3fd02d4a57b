CONSTANTS
    a = a
    b = b
    Attributes = {a, b}
    Infinity = 12
    NotFound = NotFound
    Corrupt = Corrupt
    Garbled = Garbled
    PartitioningBufferSize = 3
    BlockLists <- MCSparseLists
    LookupTimes <- MCInnerTimes
    Partitionings <- MCPartitionings
    CutTimes <- MCMoreCutTimes
    MaxBlocks = 1
    MaxReplacements = 2
SPECIFICATION Spec
INVARIANTS BlocksReadable
