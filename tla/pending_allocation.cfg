CONSTANTS
    Root = root
    Unassigned = unassigned
    NoParent = NoParent
    Unlimited = Unlimited
    NoProposal = NoProposal
    NotMeasured = NotMeasured
    Budgets = {root, b1, b2}
    Projects = {p1}
    Imports = {}
    BudgetLimits = {1}
    LeafLimits = {1}
    AllocLimits = {0, 1}
    ImportLimits = {}
    InUseLevels = {}
    Changeable = {}
    Movable = {}
    ChargeInUse = TRUE
    ChargeReleased = TRUE
    ChargeArchived = FALSE
SPECIFICATION Spec
SYMMETRY Symmetry
PROPERTIES
    ApprovalsFit
