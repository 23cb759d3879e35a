SPECIFICATION MCFairSpec
CONSTANTS
    Turns = {"a1", "a2", "b1"}
    Subject <- MCSubject
    Owner <- OneOwner
    Payloads = {p1, p2}
    BatchLimit = 1
    MaxEnqueues = 2
    MaxFailures = 1
    MaxCrashes = 1
    MaxDeletes = 1
    None = None
INVARIANTS
    QueuedContentIsKept
PROPERTIES
    FeedSpec
    AcceptedTurnArrives
CHECK_DEADLOCK FALSE
