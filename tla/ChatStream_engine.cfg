SPECIFICATION FairSpec
CONSTANTS
    Turns = {t1}
    Convs = {c1}
    ConvOf <- OneConversation
    Modes <- AllModes
    MaxDeltas = 2
    MaxToolIters = 2
    MaxCancels = 1
    ClientMayLeave = TRUE
    None = None
INVARIANTS
    InputIsKept
PROPERTIES
    EndIsClean
    TurnEnds
CHECK_DEADLOCK FALSE
