SPECIFICATION MCSpec
CONSTANTS
    Parts = {"api"}
    Workers = {w1, w2}
    Main = main
    Concurrency = 2
    MaxCalls = 4
    Nil = Nil
    KeepaliveEvery = 5
    IdleTimeout = 24
    SweepEvery = 6
    MaxLost = 3
    MaxDelay = 2
    Sources = {a}
    MaxAuthFails = 3
    Window = 2
    BlockTimeout = 4
    MaxPending = 2
    MaxFailures = 4
    Horizon = 12
    Addresses <- MCAddresses
    LANAddress <- MCLANAddress
    Port <- MCPort
    Services = 2
    TTLs = {0, 3}
    DefaultTTL = 2
    TicksPerHour = 2
    Durations = 10
    LogSize = 2
    MaxInvites = 2
    MaxLines = 3
    MaxBoots = 2
    End = 5
    Keys = {"k1", "k2", "k3"}
    OctetBits = 2
    Octets = 4
    Settings = {"x", "y"}
    MaxStarts = 3
    MaxEdits = 2
    Handles = {}
    MaxPacket = 0
INVARIANT
    PhonesReadLinks
CHECK_DEADLOCK FALSE
