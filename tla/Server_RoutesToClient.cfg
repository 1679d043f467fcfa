SPECIFICATION Spec
CONSTANTS
    Callers = {c1, c2, c3}
    a1 = a1
    a2 = a2
    x = x
    Addrs = {a1, a2}
    Hosts = {x}
    HostOf <- MCHostOf
    PoolSize = 2
    MaxAuthFails = 2
    Traffic = {"DATA"}
    Lossy = FALSE
    MaxDups = 0
    NoOne = NoOne
INVARIANT
    RoutesToClient
CHECK_DEADLOCK FALSE
