CONSTANTS
    ChunkSize = 2
    TraceLengths = {1, 2, 3, 6, 7, 8}
    Corrupt = {3}
    MaxSeek = 5
SPECIFICATION Spec
INVARIANTS
    TypeOK
    PositionCoherent
    NeverOverruns
    EofTestRaceFree
PROPERTIES
    TaskOwnsShared
    ImplementsTraceStream
    ReadingEnds
