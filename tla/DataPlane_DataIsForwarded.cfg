SPECIFICATION PlaneSpec
CONSTANTS
    PlaneWindow = 2
    PlaneTolerance = 1
    MaxSealed = 2
    MaxTime = 0
    MaxProbes = 1
    MaxDups = 0
PROPERTY
    DataIsForwarded
CHECK_DEADLOCK FALSE
