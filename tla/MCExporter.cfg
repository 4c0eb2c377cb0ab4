CONSTANTS
    Interval = 1
    Timeout = 1
    TTL = 3
    Threshold = 1
    FallbackEnabled = FALSE
    CallMax = 0
    Horizon = 4
    MaxRecoveryAttempts = 1
    ESP32Configured = TRUE
SPECIFICATION Spec
INVARIANTS
    ProvisionNeedsMqtt
PROPERTIES
    PollLoopSpec
    SupervisorSpec
