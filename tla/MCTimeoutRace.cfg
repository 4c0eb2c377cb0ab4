CONSTANTS
    Interval = 4
    Timeout = 2
    TTL = 12
    Threshold = 2
    FallbackEnabled = FALSE
    CallMax = 1
    Horizon = 13
SPECIFICATION Spec
PROPERTY TimeoutKeepsFresh
