SPECIFICATION Spec
CONSTANTS
    Keys = {k1, k2}
    Models = {m1}
    Refusals <- PoolRefusals
    Position <- Listed
    Dials = {4}
    Spreads = {TRUE, FALSE}
    DailyCooldown = 4
    HardCap = 5
    RateCap = 2
    RateBase = 1
    ServerBase = 3
    UnsizedRest = 1
    UnsizedBackoff = TRUE
    UnsizedBackoffMax = 2
    DailyBase = 1
    RefusalsBeforeRetiring = 2
    RpmWindow = 2
    MaxStrikes = 3
    RejectedFor = 1
    DeniedFor = 1
    OtherFor = 1
    MinuteFor = 2
    DayFor = 4
    StandIn = FALSE
    MirrorGrace = 2
    PoolSilence = 2
    ThawBase = 1
    ThawFan = 1
    Start = 1
    Horizon = 4
    MaxTime = 4
    MaxCalls = 4
    MaxClockSteps = 0
INVARIANTS
    FirmRestHonoured
    OwedIsHeld
    DayRestNeedsSilence
    ThrottleHonoured
    PairingSparesTheKey
CHECK_DEADLOCK FALSE
