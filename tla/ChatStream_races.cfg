SPECIFICATION Spec
CONSTANTS
    Turns = {t1, t2}
    Convs = {c1}
    ConvOf <- OneConversation
    Modes = {{}}
    MaxDeltas = 1
    MaxToolIters = 0
    MaxCancels = 1
    ClientMayLeave = FALSE
    None = None
SYMMETRY Symmetric
INVARIANTS
    OneSpeaker
    HistoryMatchesRow
PROPERTIES
    NoStaleEvent
CHECK_DEADLOCK FALSE
