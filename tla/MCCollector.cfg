CONSTANTS
    Scrapers = {s1, s2}
    Payloads <- MCPayloads
    Statuses <- MCStatuses
    TTL = 1
    Second = 2
    MaxDelay = 1
    MaxClock = 3
SYMMETRY Symmetry
SPECIFICATION Spec
INVARIANTS
    ScrapeIsOneUpdate
    ScrapeSucceeds
    StampLagBounded
    LastTokenCounts
