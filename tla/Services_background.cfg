SPECIFICATION ServicesSpec
CONSTANTS
    a1 = a1
    a2 = a2
    b1 = b1
    Turns = {a1, a2, b1}
    Subject <- MCSubject
    Owner <- OwnerPerTurn
    Payloads = {p1}
    BatchLimit = 2
    MaxEnqueues = 1
    MaxFailures = 2
    MaxCrashes = 1
    MaxDeletes = 1
    None = None
    Reads = {r1, r2}
    Urls = {u1, u2}
    PoolSize = 1
    MaxPools = 3
    MaxRefreshes = 1
    Events = {1, 2, 3}
    AuditBatch = 2
    MaxWait = 2
    MaxTries = 2
    MaxAuditFaults = 2
    BoardRuns = {1, 2, 3}
    TurnIdOf <- MCTurnIdOf
    BoardSize = 1
    Handover = 1
    Ttl = 2
    Streams = {s1, s2}
    RevocationKeys = 2
    MaxRevocations = 1
    MaxChanges = 1
    MaxRuntimes = 2
    Deployments <- DeploymentType
SYMMETRY Symmetric
INVARIANTS
    NoOvertaking
    NothingLost
    PoolsServeReads
    NoAuditLost
    BoardIsTruthful
    GrantIsFresh
    OneRuntimePerGenome
    NothingUsesWhatIsClosed
CHECK_DEADLOCK FALSE
