CONSTANTS
    Interval = 1
    Timeout = 1
    TTL = 6
    Threshold = 2
    FallbackEnabled = TRUE
    CallMax = 1
    Horizon = 7
SPECIFICATION Spec
PROPERTY UpAfterReconnect
