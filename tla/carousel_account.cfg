SPECIFICATION FairSpec
CONSTANTS
    Keys = {k1}
    Models = {m1, m2}
    Refusals <- AccountRefusals
    Position <- Listed
    Dials = {2, 4}
    Spreads = {TRUE}
    DailyCooldown = 4
    HardCap = 5
    RateCap = 2
    RateBase = 1
    ServerBase = 1
    UnsizedRest = 1
    UnsizedBackoff = TRUE
    UnsizedBackoffMax = 2
    DailyBase = 1
    RefusalsBeforeRetiring = 2
    RpmWindow = 2
    MaxStrikes = 3
    MirrorGrace = 2
    PoolSilence = 2
    ThawBase = 1
    ThawFan = 1
    Start = 1
    Horizon = 3
    MaxTime = 7
    MaxCalls = 3
    MaxClockSteps = 1
INVARIANTS
    OwedIsHeld
    ReadersAgree
PROPERTIES
    RestsEnd
CHECK_DEADLOCK FALSE
