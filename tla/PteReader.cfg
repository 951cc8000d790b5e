CONSTANTS
    Tables = {r1, r2, t1}
    Roots = {r1, r2}
    Frames = {f1, f2}
    Levels = 2
    Bare = bare
    VA = va
    MaxInsts = 3
    Interval = 2
    MaxEvents = 2
SPECIFICATION Spec
INVARIANTS
    AnswersAreTrue
    AnswersStand
PROPERTIES
    EveryCallReturns
CHECK_DEADLOCK FALSE
