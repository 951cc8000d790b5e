CONSTANTS
    Size = 4
    Lengths = {1, 4, 7}
    Iterators = {i1}
    MaxSeek = 6
    Granularity = 3
    Plain = FALSE
SPECIFICATION SpecAll
PROPERTIES
    JumpLands
    JumpReturns
CHECK_DEADLOCK FALSE
