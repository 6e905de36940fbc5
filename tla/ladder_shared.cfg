SPECIFICATION Spec
CONSTANTS
    main = main
    sibling = sibling
    other = other
    c1 = c1
    c2 = c2
    Order <- Pair
    Siblings <- Same
    Convs = {c1, c2}
    Pick <- AllOnMain
    ProbeEvery = 1
    BusyFirst = 1
    BusyMax = 1
    Memo = 1
    Permit = 1
    Stormy = {main, sibling}
    PassedOn = {}
    Watched = {main}
    Resting = {}
    Nobody = Nobody
INVARIANTS
    LooksSpaced
    CirclesSpaced
SYMMETRY AnyConversation
