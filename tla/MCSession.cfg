CONSTANTS
    Interval = 2
    Timeout = 3
    TTL = 12
    Threshold = 2
    FallbackEnabled = TRUE
    CallMax = 1
    Horizon = 13
SPECIFICATION Spec
INVARIANT UpIsBacked
PROPERTIES
    PollLoopSpec
    SessionKeepsUp
    LossShows
