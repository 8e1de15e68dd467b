CONSTANTS
    Root = root
    Unassigned = unassigned
    NoParent = NoParent
    Unlimited = Unlimited
    NoProposal = NoProposal
    NotMeasured = NotMeasured
    Budgets = {root, unassigned, b1}
    Projects = {i1, p1}
    Imports = {i1}
    BudgetLimits = {2}
    LeafLimits = {1}
    AllocLimits = {0, 1}
    ImportLimits = {1, Unlimited}
    InUseLevels = {2}
    Changeable = {p1, i1}
    Movable = {p1, i1}
    ChargeInUse = TRUE
    ChargeReleased = TRUE
    ChargeArchived = TRUE
    Parts = {"BudgetTree", "Lifetimes", "Requests", "Views", "Callers"}
    LifetimesMaxEdits = 4
    LifetimesMaxWriteFailures = 1
    RequestsMaxRequests = 2
    RequestsMaxDecisions = 1
    ViewsMaxChanges = 3
    People = {"r", "o"}
    RootAdmins = "admins"
    Managers = "managers"
    Requesters = {"o"}
    Keys = {"k1", "k2"}
    Starts <- CallersStarts
    Handlers <- CallersHandlers
    MaxCalls = 2
    MaxMoves = 1
SPECIFICATION ServiceSpec
INVARIANTS
    TypeOK
    ImportsSetAside
    ServiceTypeOK
    NothingOutlives
    ViewsAgree
PROPERTIES
    ImplementsLifecycle
    SharesKept
    ApprovedAsSeen
    ChangesAccountable
CHECK_DEADLOCK FALSE
