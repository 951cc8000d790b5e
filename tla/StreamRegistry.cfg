CONSTANTS
    Threads = {t1, t2, t3}
    Streams = {s1, s2}
    NoThread = none
    ExitThread = exiting
    ConcurrentExit = FALSE
SPECIFICATION Spec
INVARIANTS
    OpenStreamsAreRegistered
    RegistryHoldsLiveStreams
    ExitClosesStreams
PROPERTIES
    CallsReturn
CHECK_DEADLOCK FALSE
