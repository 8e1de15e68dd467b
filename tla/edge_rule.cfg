CONSTANTS
    Root = root
    Unassigned = unassigned
    NoParent = NoParent
    Unlimited = Unlimited
    NoProposal = NoProposal
    NotMeasured = NotMeasured
    Budgets = {root, b1, b2}
    Projects = {}
    Imports = {}
    BudgetLimits = {1, 2}
    LeafLimits = {1}
    AllocLimits = {}
    ImportLimits = {}
    InUseLevels = {}
    Changeable = {}
    Movable = {}
    ChargeInUse = TRUE
    ChargeReleased = TRUE
    ChargeArchived = FALSE
SPECIFICATION Spec
SYMMETRY Symmetry
INVARIANTS
    EdgesFit
