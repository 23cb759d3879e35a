SPECIFICATION Spec
CONSTANTS
    Turns = {t1}
    Convs = {c1}
    ConvOf <- OneConversation
    Modes = {{}}
    MaxDeltas = 1
    MaxToolIters = 0
    MaxCancels = 1
    ClientMayLeave = FALSE
    None = None
INVARIANTS
    OnlyHeardIsRecorded
CHECK_DEADLOCK FALSE
