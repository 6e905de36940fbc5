SPECIFICATION FairSpec
CONSTANTS
    Home = home
    Raced <- OneNext
    Spare = {next}
    Probe = none
    None = none
    next = next
    later = later
    MaxLegs = 2
    Bounded = TRUE
    WidenMax = 1
    Failures = {"refused"}
    MaxChunks = 2
    MaxQueue = 2
INVARIANTS
    OneVoice
    JudgedOnce
    FailsOnlyTogether
    NotedOnce
PROPERTIES
    NoLegReadsOn
    RaceEnds
CHECK_DEADLOCK FALSE
