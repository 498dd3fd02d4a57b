CONSTANTS
    Vertices = {v1, v2, v3, v4}
    Attributes = {a1, a2}
    NoData = NoData
    VertexDataBufferSize = 3
SPECIFICATION Spec
INVARIANTS CacheConsistent
PROPERTIES WriteOnce ImplementsRecordStore
