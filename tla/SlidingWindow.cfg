CONSTANTS
    Size = 4
    Lengths = {1, 4, 5, 7, 9}
    Iterators = {i1, i2}
    MaxSeek = 6
SPECIFICATION Spec
INVARIANTS
    NumbersCountItems
    LookingBackIsSafe
    LastItemIsKnown
PROPERTIES
    VisitsEveryItem
    SeekIsIncrements
CHECK_DEADLOCK FALSE
