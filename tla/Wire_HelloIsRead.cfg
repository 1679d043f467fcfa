SPECIFICATION MCSpec
CONSTANTS
    Parts = {"handshake"}
    WordBits = 2
    WindowSize = 6
    SeqSpace = 64
    MaxSeq = 10
    MaxQueueDepth = 2
    Closers = {c1, c2}
    Nobody = Nobody
    MaxIn = 2
    MaxOut = 3
    Bytes = 8
    ByteXor <- MCXor
    Key <- MCKey
    MaxLen = 3
    PaddingMaxBytes = 3
    KeySize = 2
    ChallengeSize = 2
    Prime = 61
    Base = 2
    Scalars <- MCScalars
    Challenges <- MCChallenges
    Tokens <- MCTokens
    IPPackets <- MCIPPackets
    Clocks <- MCClocks
    Tolerance = 3
    MaxDamage = 1
    ClientObfs <- NoOptions
    ServerObfs <- DefaultClientConfig
    PlaneWindow = 2
    PlaneTolerance = 0
    MaxSealed = 3
    MaxTime = 1
    MaxProbes = 1
    MaxDups = 1
INVARIANT
    HelloIsRead
CHECK_DEADLOCK FALSE
