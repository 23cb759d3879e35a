SPECIFICATION Spec
CONSTANTS
    NumTasks = 1
    Clients = {c1, c2}
    QueueSize = 1
    MaxPolls = 1
    MaxRetries = 1
    Routes = {"cancel", "retry"}
    MaxAccepts = 2
    MaxCrashes = 1
    MaxDeletes = 1
    MaxSessions = 1
    Owner <- OneOwner
    SessionKey <- SharedKey
    None = None
SYMMETRY Symmetric
INVARIANTS
    ReceiptMatchesTerminal
    NoOrphan
    AnnouncedOncePerClaim
CHECK_DEADLOCK FALSE
