SPECIFICATION InteractionSpec
CONSTANTS
    NumRequests = 3
    Scopes <- MCScopes
    Turn <- MCTurn
    Vague = {3}
    Devices = {"lamp", "heater", "fan"}
    Scenes = {"night"}
    Stored <- MCStored
    Movable = {"lamp"}
    Actions = {"on", "set"}
    Verdict <- MCVerdict
    Understandings <- MCUnderstandings
    Capacity = 1
    MaxCommands = 2
    MaxCandidates = 2
    HistoryLimit = 1
    MaxSessions = 2
    MaxEvents = 1
    None = None
    NumMembers = 2
    ReplyBudget = 2
    MaxPresses = 2
    MaxMishaps = 1
    NumModels = 3
    MaxChunks = 3
    Slots = {1, 2}
    TurnInputs <- MCTurnInputs
    CompilerConfigs <- MCCompilerConfigs
    Cost <- MCCost
    HistoryWindow = 2
    DegradedWindow = 3
    HomeDevices = {"lamp", "fan"}
    Verbs = {"on", "up"}
    Expressible <- MCExpressible
    HomeContexts <- MCHomeContexts
    NoContext = NoContext
    Bodies = {"d1", "d2", "d12"}
    Appearances <- MCAppearances
    NamedWith <- MCNamedWith
    Versions = {1, 2}
    Shapes = {"s1", "s2", "target"}
    Reserved = {"target"}
    MaxFlips = 2
    Gone = Gone
INVARIANTS
    TruthfulCard
    FocusIsPrevious
    OneVoice
    HistoryIsHeard
    DecisionIsSupported
    ReceiptNamesTheBody
    OneModelAnswers
    ReceiptIsTruthful
    BudgetIsSpentByPriority
PROPERTIES
    InOrder
CHECK_DEADLOCK FALSE
