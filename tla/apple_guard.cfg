SPECIFICATION FairSpec
CONSTANTS
    breakerAuthThreshold = 3
    breakerCooldown = 2
    Hour = 2
    maxAppleRunsPerHour = 3
    MaxUncounted = 1
INVARIANTS TypeOK RateCap
PROPERTIES BreakerHolds BlockedIsTemporary
