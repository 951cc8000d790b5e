CONSTANTS
    Size = 4
    Lengths = {9}
    Iterators = {i1, i2}
    MaxSeek = 3
SPECIFICATION Spec
PROPERTIES
    SeekCounts
CHECK_DEADLOCK FALSE
