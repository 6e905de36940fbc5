SPECIFICATION PoolSpec
CONSTANTS
    Procs = {p1, p2}
    Readers = {p2}
    Slots = {m1, account}
    ModelSlots = {m1}
    Account = account
    Dial <- PatientAndStrict
    Lag = 1
    PruneAfter = 9
    Slack = 1
    MaxRows = 9
    Floor = 1
    Rests = {3}
    Start = 1
    MaxEvents = 3
    Horizon = 2
    MaxTime = 3
    MaxClockSteps = 1
INVARIANTS
    HonouredOnceRead
    SuccessFreesEveryone
    HoldsBounded
CHECK_DEADLOCK FALSE
