CONSTANTS
    Parts = {"Availability", "Lab", "Books", "NodeWrites"}
    Admins = {"a1", "a2"}
    MaxOperations = 4
    MaxRefusals = 1
    Kind <- LabKinds
    Limits <- LabLimits
    Grace = 1
    LastDay = 3
    MaxChanges = 3
    MaxFaults = 1
    Metered = {"p", "q"}
    Places = {"b1", "b2"}
    BackfillDays = 1
    MaxDaysPerRun = 2
    FirstToday = 1
    LastToday = 3
    MaxMoves = 1
    MaxOutages = 1
    Handlers = {"h1", "h2"}
    Provider = "pass"
    MaxWrites = 4
    MaxNews = 2
SPECIFICATION Spec
INVARIANTS
    TypeOK
    TakenFromAll
PROPERTIES
    Revoked
    NothingTakenAway
    LabFollows
    CatchesUp
    OnlyWholeNodesTakeBack
    ProviderRecovers
CHECK_DEADLOCK FALSE
