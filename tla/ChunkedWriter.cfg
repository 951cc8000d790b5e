CONSTANTS
    ChunkSize = 2
    MaxMarkers = 7
SPECIFICATION Spec
INVARIANTS
    ChunksAreCut
    IndexDescribesChunks
    ReadableBetweenChunks
    NoMarkerLost
    CloseKeepsMarkers
PROPERTIES
    TaskOwnsFile
    CloseReturns
CHECK_DEADLOCK FALSE
