SPECIFICATION FairSpec
CONSTANTS
    Procs = {p1, p2}
    Denied = {p2}
    Patience = 2
    ButtonPatience = 2
    StaleAfter = 1
    Versions = 2
    MaxStep = 1
    MaxClockSteps = 1
    MaxCrashes = 1
INVARIANTS
    NoLostUpdate
PROPERTIES
    AttemptsEnd
    OrphanReclaimed
