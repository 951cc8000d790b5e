CONSTANTS
    Size = 4
    Lengths = {7}
    Iterators = {i1}
    MaxSeek = 6
    Granularity = 3
    Plain = TRUE
SPECIFICATION SpecAll
INVARIANTS
    NumbersCountItems
CHECK_DEADLOCK FALSE
