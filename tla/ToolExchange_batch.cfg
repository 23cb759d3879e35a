SPECIFICATION FairSpec
CONSTANTS
    Tools <- MCTools
    Batches <- MCBatches
    Arguments = {"query", "song", "nod"}
    MaxCalls = 3
    MaxIters = 2
    MaxRepeatIters = 1
    MaxRuns = 2
    BatchLimited = TRUE
    RequireIdempotency = FALSE
    StrictSchemas = TRUE
    None = None
    Lost = Lost
INVARIANTS
    SideEffectsAlone
    AckedNotRepeated
    TruthfulResult
    NoActionAfterCancel
PROPERTIES
    BatchEnds
CHECK_DEADLOCK FALSE
