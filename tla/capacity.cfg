CONSTANTS
    Root = root
    Unassigned = unassigned
    NoParent = NoParent
    Unlimited = Unlimited
    NoProposal = NoProposal
    NotMeasured = NotMeasured
    Budgets = {root, b1, b2}
    Projects = {p1, p2}
    Imports = {}
    BudgetLimits = {1, 2}
    LeafLimits = {1, 2}
    AllocLimits = {}
    ImportLimits = {}
    InUseLevels = {}
    Changeable = {p1, p2}
    Movable = {b1, b2, p1, p2}
    ChargeInUse = TRUE
    ChargeReleased = TRUE
    ChargeArchived = FALSE
SPECIFICATION Spec
SYMMETRY Symmetry
INVARIANTS
    ReachesRoot
    SomeLimitApplies
    WithinLimits
