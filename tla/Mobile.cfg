SPECIFICATION MCFairSpec
CONSTANTS
    Attempts = {a1, a2}
    NoOne = NoOne
    Readers = {r}
    Writers = {w}
    QueueCap = 1
    MaxPackets = 2
    MaxStarts = 2
    MaxOpens = 3
    NoFd = NoFd
INVARIANTS
    LiveLoopIsReachable
    NothingOutlives
    NothingOutOfReach
    CompletionOnce
PROPERTY
    ImplementsEvents
CHECK_DEADLOCK FALSE
