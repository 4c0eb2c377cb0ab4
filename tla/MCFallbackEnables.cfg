CONSTANTS
    Interval = 4
    Timeout = 2
    TTL = 12
    Threshold = 2
    FallbackEnabled = TRUE
    CallMax = 1
    Horizon = 13
SPECIFICATION Spec
INVARIANT RecoveryNeedsMqtt
