SPECIFICATION FairSnapshotSpec
CONSTANTS
    Processes = {desktop, gateway}
    MaxRecords = 1
INVARIANTS
    CacheTrue
PROPERTIES
    NewsComesBack
    GhostsLeave
CHECK_DEADLOCK FALSE
