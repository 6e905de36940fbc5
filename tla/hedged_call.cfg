SPECIFICATION Spec
CONSTANTS
    Conversations = {c1, c2}
    MaxLegs = 3
    BurstLegs = 2
    Burst = 1
    Share = 1
    Whole = 2
    Refusals = {"per_minute", "error"}
INVARIANTS
    OneJudge
    BestAnswerWins
    BackupsBounded
SYMMETRY AnyConversation
