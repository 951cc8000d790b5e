CONSTANTS
    Threads = {t1, t2, t3}
    Streams = {s1, s2}
    NoThread = none
    ExitThread = exiting
    ConcurrentExit = TRUE
SPECIFICATION Spec
INVARIANTS
    NoLockCycle
CHECK_DEADLOCK FALSE
