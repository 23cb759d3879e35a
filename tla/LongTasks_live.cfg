SPECIFICATION FairSpec
CONSTANTS
    NumTasks = 3
    Clients = {c1}
    QueueSize = 1
    MaxPolls = 1
    MaxRetries = 0
    Routes = {}
    MaxAccepts = 1
    MaxCrashes = 1
    MaxDeletes = 1
    MaxSessions = 2
    Owner <- TwoOwners
    SessionKey <- TwoKeys
    None = None
INVARIANTS
    ResultStaysInSession
PROPERTIES
    QueuedTaskEnds
CHECK_DEADLOCK FALSE
