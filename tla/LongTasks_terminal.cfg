SPECIFICATION Spec
CONSTANTS
    NumTasks = 1
    Clients = {c1}
    QueueSize = 1
    MaxPolls = 1
    MaxRetries = 0
    Routes = {"cancel", "retry"}
    MaxAccepts = 1
    MaxCrashes = 0
    MaxDeletes = 0
    MaxSessions = 1
    Owner <- OneOwner
    SessionKey <- SharedKey
    None = None
PROPERTY TerminalIsFinal
CHECK_DEADLOCK FALSE
