SPECIFICATION FairSpec
CONSTANTS
    Processes = {desktop, gateway}
    Values = {set}
    MaxRequests = 2
    MaxEdits = 1
    MaxCrashes = 1
    Deletable = FALSE
    Writable = FALSE
    Readable = TRUE
INVARIANTS
    ToldTrue
PROPERTIES
    EveryoneFollows
CHECK_DEADLOCK FALSE
