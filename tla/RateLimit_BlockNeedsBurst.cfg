SPECIFICATION RateSpec
CONSTANTS
    Sources = {a}
    MaxAuthFails = 3
    Window = 2
    BlockTimeout = 4
    MaxPending = 2
    MaxFailures = 4
    Horizon = 12
PROPERTY BlockNeedsBurst
CHECK_DEADLOCK FALSE
