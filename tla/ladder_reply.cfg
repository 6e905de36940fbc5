SPECIFICATION FairSpec
CONSTANTS
    main = main
    sibling = sibling
    other = other
    c1 = c1
    c2 = c2
    Order <- Trio
    Siblings <- Same
    Convs = {c1}
    Pick <- AllOnMain
    ProbeEvery = 1
    BusyFirst = 1
    BusyMax = 2
    Memo = 1
    Permit = 1
    Stormy = {main}
    PassedOn = {main, sibling, other}
    Watched = {}
    Resting = {main}
    Nobody = Nobody
INVARIANTS
    OriginKept
PROPERTIES
    BestModelIsFound
