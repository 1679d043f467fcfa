SPECIFICATION ClientFairSpec
CONSTANTS
    MaxConnects = 1
    MaxOrders = 1
PROPERTY
    DropIsNoticed
CHECK_DEADLOCK FALSE
