SPECIFICATION FairSpec
CONSTANTS
    Procs = {p1, p2}
    Readers = {p2}
    Slots = {s1, s2, s3}
    ModelSlots = {s1, s2, s3}
    PruneAfter = 1
    Slack = 0
    MaxRows = 2
    Floor = 1
    Rests = {2}
    Start = 1
    MaxEvents = 3
    Horizon = 3
    MaxTime = 4
    MaxClockSteps = 1
INVARIANTS
    ReleaseStands
    FreshOnNextRead
PROPERTIES
    LiveRowsSurvive
    EveryoneLearns
CHECK_DEADLOCK FALSE
