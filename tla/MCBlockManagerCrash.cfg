CONSTANTS
    Contents = {c1, c2}
    NoBlock = NoBlock
    BlockBufferSize = 2
    MaxBlocks = 4
SPECIFICATION CrashSpec
PROPERTIES AppendOnly
