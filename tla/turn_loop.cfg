SPECIFICATION Spec
CONSTANTS
    Keys = {k1, k2}
    NoKey = NoKey
    Models = {home, next}
    Home = home
    Channels = {"main", "cosmetic", "important"}
    Refusals = {"gateway", "spent", "shape", "prefill"}
    ResumeBudget = 1
    Ongoing = TRUE
    EmptyBudget = 1
    MaxAux = 2
    Waits = TRUE
    Stays = FALSE
    LateDrops = FALSE
    MaxText = 1
INVARIANTS
    NoEndlessResume
    RefusalProved
PROPERTIES
    KeepsPromise
    OneModelAnswers
SYMMETRY AnyKey
CHECK_DEADLOCK FALSE
