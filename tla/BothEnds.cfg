SPECIFICATION MCFairSpec
CONSTANTS
    Callers = {c1, c2}
    a1 = a1
    a2 = a2
    x = x
    Addrs = {a1, a2}
    Hosts = {x}
    HostOf <- MCHostOf
    PoolSize = 1
    MaxAuthFails = 2
    Traffic = {"KEEPALIVE"}
    Lossy = TRUE
    MaxDups = 0
    NoOne = NoOne
    MaxConnects = 2
    MaxOrders = 2
INVARIANTS
    ConnectedHasTunnel
    RouteHasTun
    NothingLeaks
PROPERTIES
    HandshakesEnd
    GoneIsForgotten
    CancelledEnds
CHECK_DEADLOCK FALSE
